---- MODULE Spec2Model ----
(***************************************************************************)
(* Organ-age pipeline of the organ_aging package: table merge, organ       *)
(* dataset construction, train/validation/test split, feature scaling,     *)
(* age-gap computation, model comparison, fastest-aging-organ analysis and *)
(* the k-means save step.                                                  *)
(*                                                                         *)
(* Every library function is a pure table transform, so each has its own   *)
(* specification: Init draws the call's inputs from bounded sets and one   *)
(* action applies the function.  The variables of the other functions stay *)
(* at their idle value.                                                    *)
(*                                                                         *)
(* A table (pandas DataFrame) is a record                                  *)
(*   [columns |-> sequence of column names (column order),                 *)
(*    index   |-> sequence of row labels,                                  *)
(*    data    |-> [column name -> sequence of cell values]].               *)
(* A cell is an integer; NaN stands for a missing cell.                    *)
(***************************************************************************)
EXTENDS Integers, Sequences, FiniteSets, TLC

VARIABLES
    pc,      \* position of the call: "ready", then "done" (returned) or "raised"
    args,    \* the arguments as passed, by the parameter names of the source
    caller,  \* the caller's own objects (the mutable arguments) as the caller sees them
    result   \* what the call returned; None when it raised

vars == <<pc, args, caller, result>>

None == [none |-> TRUE]

(***************************************************************************)
(* Tables                                                                  *)
(***************************************************************************)
NaN == -999

Range(s) == {s[i] : i \in DOMAIN s}

NRows(t) == Len(t.index)

\* df[c] = vals : an existing column is overwritten in place, a new one is
\* appended after the last column.
SetColumn(t, c, vals) ==
    [columns |-> IF c \in Range(t.columns) THEN t.columns ELSE Append(t.columns, c),
     index   |-> t.index,
     data    |-> [k \in (DOMAIN t.data) \cup {c} |-> IF k = c THEN vals ELSE t.data[k]]]

\* Elementwise a - b of pandas/numpy: a missing operand gives a missing result.
Sub(a, b) == IF a = NaN \/ b = NaN THEN NaN ELSE a - b

SeqsUpTo(S, n) == UNION {[1..k -> S] : k \in 0..n}

(***************************************************************************)
(* evaluation.py : compute_age_bio_and_gaps                                *)
(***************************************************************************)
MaxGapRows == 2
MaxPredLen == 2
AgeValues == {30, 40}
PredValues == {29, 40}
OrganNames == {"liver", "kidney"}

MaxOrgans == 2

\* Tables handed to compute_age_bio_and_gaps: the cleaned NHANES table, whose
\* column names were upper-cased by the loader (SEQN, AGE), default row index.
GapTable(ages) ==
    [columns |-> <<"SEQN", "AGE">>,
     index   |-> [i \in 1..Len(ages) |-> i - 1],
     data    |-> [c \in {"SEQN", "AGE"} |->
                    IF c = "SEQN" THEN [i \in 1..Len(ages) |-> 100 + i] ELSE ages]]

\* The documented example: ages 25..65, five liver predictions; four
\* predictions for the same five rows are the documented mismatch.
ExampleAges == <<25, 35, 45, 55, 65>>
ExamplePreds == <<27, 36, 48, 53, 67>>
ExampleShortPreds == <<27, 36, 48, 53>>

GapTables ==
    {GapTable(ages) : ages \in SeqsUpTo(AgeValues, MaxGapRows)} \cup {GapTable(ExampleAges)}

\* predictions: Dict[str, np.ndarray], a dict keeps insertion order and has
\* distinct keys.
PredDicts ==
    {p \in SeqsUpTo([organ : OrganNames, pred : SeqsUpTo(PredValues, MaxPredLen)], MaxOrgans) :
        \A i, j \in DOMAIN p : i # j => p[i].organ # p[j].organ}
    \cup {<<[organ |-> "liver", pred |-> ExamplePreds]>>,
          <<[organ |-> "liver", pred |-> ExampleShortPreds]>>,
          <<[organ |-> "liver", pred |-> ExamplePreds],
            [organ |-> "kidney", pred |-> ExampleShortPreds]>>}

bio_age_col(organ_name) == organ_name \o "_age_bio"
gap_col(organ_name) == organ_name \o "_age_gap"

\* pred_ages - result_df[age_col], elementwise
GapValuesSwapped(pred_ages, ages) == [i \in DOMAIN pred_ages |-> Sub(ages[i], pred_ages[i])]
GapValues(pred_ages, ages) == [i \in DOMAIN pred_ages |-> Sub(pred_ages[i], ages[i])]

\* One iteration body of the loop over predictions.items(), after the length
\* check passed.
AddOrganColumns(result_df, organ_name, pred_ages, age_col) ==
    LET withBio == SetColumn(result_df, bio_age_col(organ_name), pred_ages)
    IN  SetColumn(withBio, gap_col(organ_name), GapValues(pred_ages, withBio.data[age_col]))

LengthMismatch(pred_ages, result_df) == Len(pred_ages) # NRows(result_df)

\* The loop from its i-th item on.  raised: the ValueError left the function;
\* work: the local result_df when the function was left.
RECURSIVE GapLoop(_, _, _, _)
GapLoop(result_df, preds, i, age_col) ==
    IF i > Len(preds) THEN [raised |-> FALSE, work |-> result_df]
    ELSE IF LengthMismatch(preds[i].pred, result_df)
         THEN [raised |-> TRUE, work |-> result_df]
         ELSE GapLoop(AddOrganColumns(result_df, preds[i].organ, preds[i].pred, age_col),
                      preds, i + 1, age_col)

\* result_df = df.copy(): the loop works on a copy, so the caller's table is
\* what it was, whatever the loop did to its working table.
CallerTableAfterAlias(caller_df, work) == work
CallerTableAfter(caller_df, work) == caller_df

\* The value the call hands back: the working table, or nothing when it raised.
ReturnedPartial(out) == out.work
Returned(out) == IF out.raised THEN None ELSE out.work

compute_age_bio_and_gaps(table, preds, age_col) == GapLoop(table, preds, 1, age_col)

InitGaps ==
    /\ pc = "ready"
    /\ args \in [df : GapTables, predictions : PredDicts]
    /\ caller = [df |-> args.df]
    /\ result = None

CallComputeGaps ==
    /\ pc = "ready"
    /\ "predictions" \in DOMAIN args
    /\ LET out == compute_age_bio_and_gaps(args.df, args.predictions, "AGE")
       IN  /\ pc' = IF out.raised THEN "raised" ELSE "done"
           /\ result' = Returned(out)
           /\ caller' = [df |-> CallerTableAfter(caller.df, out.work)]
    /\ UNCHANGED args

NextGaps == CallComputeGaps

SpecGaps == InitGaps /\ [][NextGaps]_vars

\* C1: when every prediction array is as long as the table, the result has,
\* for each organ o and row i, o_age_bio[i] = prediction_o[i] and
\* o_age_gap[i] = prediction_o[i] - AGE[i]; the row count, the row index and
\* every column the table had are unchanged, and the new columns follow them.
C1_GapColumns ==
    (/\ pc # "ready"
     /\ "predictions" \in DOMAIN args
     /\ \A k \in DOMAIN args.predictions : Len(args.predictions[k].pred) = NRows(args.df)) =>
        /\ pc = "done"
        /\ result.index = args.df.index
        /\ SubSeq(result.columns, 1, Len(args.df.columns)) = args.df.columns
        /\ \A c \in Range(args.df.columns) : result.data[c] = args.df.data[c]
        /\ Len(result.columns) = Len(args.df.columns) + 2 * Len(args.predictions)
        /\ \A k \in DOMAIN args.predictions :
             LET o == args.predictions[k].organ
                 pred == args.predictions[k].pred
             IN  /\ result.data[o \o "_age_bio"] = pred
                 /\ \A i \in 1..NRows(args.df) :
                      result.data[o \o "_age_gap"][i] = pred[i] - args.df.data["AGE"][i]

\* C1 witness: the documented example, gaps [2,1,3,-2,2].
C1_Witness ==
    /\ pc = "done"
    /\ "predictions" \in DOMAIN args
    /\ args.df.data["AGE"] = ExampleAges
    /\ Len(args.predictions) = 1
    /\ args.predictions[1].pred = ExamplePreds
    /\ result.data["liver_age_gap"] = <<2, 1, 3, -2, 2>>

\* C2: if any organ's prediction array (the first processed or a later one)
\* differs in length from the table's row count, the call raises, returns no
\* table, and the caller's table is what it was (no column added).
C2_MismatchRaises ==
    (/\ pc # "ready"
     /\ "predictions" \in DOMAIN args
     /\ \E k \in DOMAIN args.predictions : Len(args.predictions[k].pred) # NRows(args.df)) =>
        /\ pc = "raised"
        /\ result = None
        /\ caller.df = args.df

\* C2 witness: the first organ fits, a later organ does not, and the call
\* raised after the first organ's columns were added to the working table.
C2_Witness ==
    /\ pc = "raised"
    /\ "predictions" \in DOMAIN args
    /\ Len(args.predictions) = 2
    /\ Len(args.predictions[1].pred) = NRows(args.df)
    /\ Len(args.predictions[2].pred) # NRows(args.df)
    /\ NRows(args.df) > 0

(***************************************************************************)
(* data_loading.py : merge_nhanes_tables                                   *)
(***************************************************************************)
MaxMergeRows == 2
KeyValues == {1, 2}
DataColumns == {"AGE", "ALT"}

\* tables_dict keys in insertion order; at most Len(TableNames) tables.
TableNames == <<"demographics", "biochemistry", "examination">>

\* A loaded table at dict position k: a key column (SEQN, or ID when the file
\* has no SEQN) and one data column whose cells tell the table, the key and
\* the row they come from.  The loader does not deduplicate keys.
MergeTable(k, keyName, col, keys) ==
    [columns |-> <<keyName, col>>,
     index   |-> [i \in 1..Len(keys) |-> i - 1],
     data    |-> [c \in {keyName, col} |->
                    IF c = keyName THEN keys
                    ELSE [i \in 1..Len(keys) |-> 100 * k + 10 * keys[i] + i]]]

MergeTablesAt(k) ==
    {MergeTable(k, "SEQN", col, keys) : col \in DataColumns, keys \in SeqsUpTo(KeyValues, MaxMergeRows)}
    \cup {MergeTable(k, "ID", col, <<1>>) : col \in DataColumns}

DictEntry(k, t) == [name |-> TableNames[k], table |-> t]

TablesDicts ==
    {<<>>}
    \cup {<<DictEntry(1, t1)>> : t1 \in MergeTablesAt(1)}
    \cup {<<DictEntry(1, t1), DictEntry(2, t2)>> :
            t1 \in MergeTablesAt(1), t2 \in MergeTablesAt(2)}
    \cup {<<DictEntry(1, t1), DictEntry(2, t2), DictEntry(3, t3)>> :
            t1 \in MergeTablesAt(1), t2 \in MergeTablesAt(2), t3 \in MergeTablesAt(3)}

\* Row positions of the right table whose key equals key, in row order.
RightMatches(rk, key) == SelectSeq([j \in 1..Len(rk) |-> j], LAMBDA j : rk[j] = key)

\* how='inner', on='SEQN': one output row per pair (left row, right row) with
\* equal keys, in left row order, then right row order.
RECURSIVE MatchPairs(_, _, _)
MatchPairs(lk, rk, i) ==
    IF i > Len(lk) THEN <<>>
    ELSE LET m == RightMatches(rk, lk[i])
         IN  [j \in 1..Len(m) |-> <<i, m[j]>>] \o MatchPairs(lk, rk, i + 1)

\* suffixes=('', '_<table_name>'): an incoming non-key column whose name is
\* already in the merged table is renamed, the merged one keeps its name.
RightNameAlwaysSuffixed(left, c, table_name) == c \o "_" \o table_name
RightName(left, c, table_name) ==
    IF c \in Range(left.columns) THEN c \o "_" \o table_name ELSE c

\* merged_df.merge(df, on='SEQN', how='inner', suffixes=('', f'_{table_name}'))
InnerMerge(left, right, table_name) ==
    LET pairs == MatchPairs(left.data["SEQN"], right.data["SEQN"], 1)
        rcols == SelectSeq(right.columns, LAMBDA c : c # "SEQN")
        newNames == [k \in 1..Len(rcols) |-> RightName(left, rcols[k], table_name)]
        fromRight(c) == CHOOSE k \in 1..Len(rcols) : newNames[k] = c
    IN  [columns |-> left.columns \o newNames,
         index   |-> [k \in 1..Len(pairs) |-> k - 1],
         data    |-> [c \in Range(left.columns) \cup Range(newNames) |->
                        IF c \in Range(left.columns)
                        THEN [k \in 1..Len(pairs) |-> left.data[c][pairs[k][1]]]
                        ELSE [k \in 1..Len(pairs) |->
                                right.data[rcols[fromRight(c)]][pairs[k][2]]]]]

\* for table_name in table_names[1:]: merged_df = merged_df.merge(...)
RECURSIVE MergeLoop(_, _, _)
MergeLoop(merged_df, tables_dict, k) ==
    IF k > Len(tables_dict) THEN merged_df
    ELSE MergeLoop(InnerMerge(merged_df, tables_dict[k].table, tables_dict[k].name),
                   tables_dict, k + 1)

\* The positions of the mapping whose table has no SEQN column.
LacksKey(tables_dict) ==
    {k \in DOMAIN tables_dict : "SEQN" \notin Range(tables_dict[k].table.columns)}

\* for table_name, df in tables_dict.items(): if 'SEQN' not in df.columns: raise
MissingKeyFirstOnly(tables_dict) == 1 \in LacksKey(tables_dict)
MissingKey(tables_dict) == LacksKey(tables_dict) # {}

\* The merged table after the first k tables.
MergedUpTo(tables_dict, k) == MergeLoop(tables_dict[1].table, SubSeq(tables_dict, 1, k), 2)

\* overlap_cols = set(merged_df.columns) & set(df.columns) - {'SEQN'}
OverlapCols(merged_df, df) ==
    Range(merged_df.columns) \cap (Range(df.columns) \ {"SEQN"})

\* The warnings of the loop: one for each table that brings a column name
\* the merged table already has.
MergeWarnings(tables_dict) ==
    LET warned == SelectSeq([k \in 1..Len(tables_dict) |-> k], LAMBDA k :
                      k >= 2 /\ OverlapCols(MergedUpTo(tables_dict, k - 1),
                                            tables_dict[k].table) # {})
    IN  [w \in DOMAIN warned |->
            [table |-> tables_dict[warned[w]].name,
             overlap_cols |-> OverlapCols(MergedUpTo(tables_dict, warned[w] - 1),
                                          tables_dict[warned[w]].table)]]

\* error names what was raised, joins counts the merge calls that returned,
\* warnings lists the warnings emitted.  DataFrame.merge(on='SEQN') itself
\* raises KeyError for a table without that column.
merge_nhanes_tables(tables_dict) ==
    IF tables_dict = <<>>
    THEN [raised |-> TRUE, value |-> None, error |-> "No tables provided for merging",
          joins |-> 0, warnings |-> <<>>]
    ELSE IF MissingKey(tables_dict)
    THEN [raised |-> TRUE, value |-> None, error |-> "does not contain SEQN column",
          joins |-> 0, warnings |-> <<>>]
    ELSE IF LacksKey(tables_dict) # {}
    THEN LET k == CHOOSE j \in LacksKey(tables_dict) : \A i \in LacksKey(tables_dict) : j <= i
         IN  [raised |-> TRUE, value |-> None, error |-> "KeyError",
              joins |-> k - 2, warnings |-> MergeWarnings(SubSeq(tables_dict, 1, k - 1))]
    ELSE [raised |-> FALSE, value |-> MergeLoop(tables_dict[1].table, tables_dict, 2),
          error |-> "", joins |-> Len(tables_dict) - 1,
          warnings |-> MergeWarnings(tables_dict)]

InitMerge ==
    /\ pc = "ready"
    /\ args \in [tables_dict : TablesDicts]
    /\ caller = [tables_dict |-> args.tables_dict, error |-> "", joins |-> 0,
                 warnings |-> <<>>]
    /\ result = None

CallMerge ==
    /\ pc = "ready"
    /\ "tables_dict" \in DOMAIN args
    /\ LET out == merge_nhanes_tables(args.tables_dict)
       IN  /\ pc' = IF out.raised THEN "raised" ELSE "done"
           /\ result' = out.value
           /\ caller' = [caller EXCEPT !.error = out.error, !.joins = out.joins,
                                       !.warnings = out.warnings]
    /\ UNCHANGED args

NextMerge == CallMerge

SpecMerge == InitMerge /\ [][NextMerge]_vars

KeySet(t) == Range(t.data["SEQN"])

\* C3 (as claimed): the merge of two or more tables is an inner join on SEQN:
\* every SEQN of the result is in every input, every SEQN present in all inputs
\* is in the result, and the result has at most as many rows as the smallest
\* input (no row fabricated or duplicated).
C3_InnerJoin ==
    (pc = "done" /\ "tables_dict" \in DOMAIN args /\ Len(args.tables_dict) >= 2) =>
        /\ \A k \in DOMAIN args.tables_dict : KeySet(result) \subseteq KeySet(args.tables_dict[k].table)
        /\ \A s \in KeyValues :
             (\A k \in DOMAIN args.tables_dict : s \in KeySet(args.tables_dict[k].table))
                => s \in KeySet(result)
        /\ \A k \in DOMAIN args.tables_dict : NRows(result) <= NRows(args.tables_dict[k].table)

\* The key sets of the result are those of an inner join whatever the inputs.
C3_KeySetsOnly ==
    (pc = "done" /\ "tables_dict" \in DOMAIN args /\ Len(args.tables_dict) >= 2) =>
        KeySet(result) =
            {s \in KeyValues : \A k \in DOMAIN args.tables_dict : s \in KeySet(args.tables_dict[k].table)}

\* With SEQN unique within each input table the whole of C3 holds.
C3_UniqueKeys ==
    (/\ pc = "done" /\ "tables_dict" \in DOMAIN args /\ Len(args.tables_dict) >= 2
     /\ \A k \in DOMAIN args.tables_dict :
          Cardinality(KeySet(args.tables_dict[k].table)) = NRows(args.tables_dict[k].table)) =>
        \A k \in DOMAIN args.tables_dict : NRows(result) <= NRows(args.tables_dict[k].table)

\* C17: a mapping without tables, or with a table that lacks SEQN at any
\* position, fails with an error before any join; every other mapping is
\* merged; the input tables are as they were.
C17_KeyRequired ==
    ("tables_dict" \in DOMAIN args /\ pc # "ready") =>
        /\ (args.tables_dict = <<>>) =>
              /\ pc = "raised" /\ result = None
              /\ caller.error = "No tables provided for merging"
              /\ caller.joins = 0
        /\ (\E k \in DOMAIN args.tables_dict :
                "SEQN" \notin Range(args.tables_dict[k].table.columns)) =>
              /\ pc = "raised" /\ result = None
              /\ caller.error = "does not contain SEQN column"
              /\ caller.joins = 0
        /\ (/\ args.tables_dict # <<>>
            /\ \A k \in DOMAIN args.tables_dict :
                  "SEQN" \in Range(args.tables_dict[k].table.columns)) =>
              pc = "done" /\ caller.joins = Len(args.tables_dict) - 1
        /\ caller.tables_dict = args.tables_dict

\* C17 witness: the third of three tables lacks SEQN, the first two share a
\* key; the call raised with no join made.
C17_Witness ==
    /\ "tables_dict" \in DOMAIN args
    /\ pc = "raised"
    /\ Len(args.tables_dict) = 3
    /\ "SEQN" \in Range(args.tables_dict[1].table.columns)
    /\ "SEQN" \in Range(args.tables_dict[2].table.columns)
    /\ KeySet(args.tables_dict[1].table) \cap KeySet(args.tables_dict[2].table) # {}
    /\ args.tables_dict[3].table.columns = <<"ID", "ALT">>
    /\ caller.error = "does not contain SEQN column"
    /\ caller.joins = 0

\* The name under which the non-key column c of the table at position k is
\* expected in the merged table.
MergedName(tables_dict, k, c) ==
    IF \E j \in 1..(k - 1) : c \in Range(tables_dict[j].table.columns)
    THEN c \o "_" \o tables_dict[k].name ELSE c

RECURSIVE ProductOver(_, _)
ProductOver(f, k) == IF k = 0 THEN 1 ELSE f[k] * ProductOver(f, k - 1)

\* C18: the columns of the merged table are SEQN, then the non-key columns
\* of the tables in mapping order; a column whose name an earlier table
\* already brought is kept as <column>_<table name>, the earlier one keeps
\* its name, and a warning names the table; every cell of the merged table
\* is the cell of the input row with that SEQN, and each SEQN has as many
\* rows as the join of the tables gives it.
C18_OverlapSuffixed ==
    (pc = "done" /\ "tables_dict" \in DOMAIN args) =>
        LET T == args.tables_dict
            dataCol(k) == T[k].table.columns[2]
        IN  /\ result.columns = <<"SEQN">> \o [k \in DOMAIN T |-> MergedName(T, k, dataCol(k))]
            /\ Cardinality(Range(result.columns)) = Len(T) + 1
            /\ \A k \in DOMAIN T :
                  \A r \in 1..NRows(result) :
                     \E i \in 1..NRows(T[k].table) :
                        /\ T[k].table.data["SEQN"][i] = result.data["SEQN"][r]
                        /\ T[k].table.data[dataCol(k)][i]
                              = result.data[MergedName(T, k, dataCol(k))][r]
            /\ \A key \in KeyValues :
                  Len(RightMatches(result.data["SEQN"], key))
                     = ProductOver([k \in DOMAIN T |->
                                       Len(RightMatches(T[k].table.data["SEQN"], key))], Len(T))
            /\ \A k \in DOMAIN T :
                  (\E j \in 1..(k - 1) : dataCol(j) = dataCol(k))
                     <=> (\E w \in DOMAIN caller.warnings :
                            /\ caller.warnings[w].table = T[k].name
                            /\ caller.warnings[w].overlap_cols = {dataCol(k)})
            /\ caller.tables_dict = T

\* C18 witness: three tables that all bring an AGE column and share a key.
C18_Witness ==
    /\ pc = "done"
    /\ "tables_dict" \in DOMAIN args
    /\ result.columns = <<"SEQN", "AGE", "AGE_biochemistry", "AGE_examination">>
    /\ NRows(result) >= 2
    /\ result.data["AGE"][1] # result.data["AGE_biochemistry"][1]
    /\ Len(caller.warnings) = 2

(***************************************************************************)
(* features.py : build_organ_datasets                                      *)
(***************************************************************************)
MaxDatasetRows == 2

\* Columns of the cleaned table; each cell is present or missing.
DatasetColumns == <<"SEQN", "AGE", "ALT", "AST", "SEX">>

CellValue(c, i) ==
    CASE c = "SEQN" -> 100 + i
      [] c = "AGE"  -> 20 + 10 * i
      [] c = "ALT"  -> 50 + i
      [] c = "AST"  -> 60 + i
      [] OTHER      -> 1 + (i % 2)

DatasetTable(n, missing) ==
    [columns |-> DatasetColumns,
     index   |-> [i \in 1..n |-> i - 1],
     data    |-> [c \in Range(DatasetColumns) |->
                    [i \in 1..n |-> IF <<c, i>> \in missing THEN NaN ELSE CellValue(c, i)]]]

DatasetTables ==
    UNION {{DatasetTable(n, missing) : missing \in SUBSET ({"AGE", "ALT", "AST", "SEX"} \X (1..n))} :
           n \in 0..MaxDatasetRows}

\* organ_panels: organ name -> biomarker list, in insertion order, possibly
\* with the reserved key; CREAT is a biomarker the table does not have.
PanelDicts ==
    {<<[name |-> "liver", biomarkers |-> <<"ALT", "AST">>],
       [name |-> "global_covariates", biomarkers |-> <<"SEX">>]>>,
     <<[name |-> "kidney", biomarkers |-> <<"CREAT">>],
       [name |-> "liver", biomarkers |-> <<"ALT", "CREAT">>]>>,
     <<[name |-> "liver", biomarkers |-> <<"AST", "ALT", "AST">>],
       [name |-> "kidney", biomarkers |-> <<"SEX", "ALT">>]>>,
     <<[name |-> "liver", biomarkers |-> <<"AGE", "ALT">>]>>,
     <<[name |-> "kidney", biomarkers |-> <<>>]>>,
     <<>>}

CovarLists == {<<>>, <<"SEX">>, <<"SEX", "BMI">>, <<"ALT", "SEX">>, <<"AGE", "SEX", "BMI">>}

\* [col for col in cols if col in df.columns]
Available(cols, table) == SelectSeq(cols, LAMBDA c : c \in Range(table.columns))

\* list(dict.fromkeys(cols)): duplicates removed, first occurrence kept
RECURSIVE DictFromKeys(_)
DictFromKeys(cols) ==
    IF cols = <<>> THEN <<>>
    ELSE LET front == DictFromKeys(SubSeq(cols, 1, Len(cols) - 1))
             last == cols[Len(cols)]
         IN  IF last \in Range(front) THEN front ELSE Append(front, last)

\* valid_idx = X.notna().all(axis=1) & y.notna(), at row position i
ValidRowFeaturesOnly(table, feature_cols, target_col, i) ==
    \A c \in Range(feature_cols) : table.data[c][i] # NaN
ValidRow(table, feature_cols, target_col, i) ==
    /\ \A c \in Range(feature_cols) : table.data[c][i] # NaN
    /\ table.data[target_col][i] # NaN

ValidPositions(table, feature_cols, target_col) ==
    SelectSeq([i \in 1..NRows(table) |-> i],
              LAMBDA i : ValidRow(table, feature_cols, target_col, i))

\* df[cols][mask]: the listed columns, the rows at the kept positions, each
\* row keeping its index label.
TakeRows(table, cols, pos) ==
    [columns |-> cols,
     index   |-> [k \in 1..Len(pos) |-> table.index[pos[k]]],
     data    |-> [c \in Range(cols) |-> [k \in 1..Len(pos) |-> table.data[c][pos[k]]]]]

TakeSeries(table, col, pos) ==
    [index  |-> [k \in 1..Len(pos) |-> table.index[pos[k]]],
     values |-> [k \in 1..Len(pos) |-> table.data[col][pos[k]]]]

FeatureColsCovarsFirst(table, biomarkers, global_covars) ==
    DictFromKeys(Available(global_covars, table) \o Available(biomarkers, table))
FeatureCols(table, biomarkers, global_covars) ==
    DictFromKeys(Available(biomarkers, table) \o Available(global_covars, table))

OrganDataset(table, organ_name, biomarkers, global_covars, target_col) ==
    LET feature_cols == FeatureCols(table, biomarkers, global_covars)
        pos == ValidPositions(table, feature_cols, target_col)
    IN  [organ |-> organ_name,
         X |-> TakeRows(table, feature_cols, pos),
         y |-> TakeSeries(table, target_col, pos)]

\* The panels that give no dataset: the reserved key, and ("continue") an
\* organ without any available biomarker.
SkippedReservedOnly(panel, table) == panel.name = "global_covariates"
Skipped(panel, table) ==
    \/ panel.name = "global_covariates"
    \/ Available(panel.biomarkers, table) = <<>>

\* The loop over organ_names from its k-th panel on.
RECURSIVE DatasetLoop(_, _, _, _, _)
DatasetLoop(table, organ_panels, global_covars, target_col, k) ==
    IF k > Len(organ_panels) THEN <<>>
    ELSE LET panel == organ_panels[k]
             rest == DatasetLoop(table, organ_panels, global_covars, target_col, k + 1)
         IN  IF Skipped(panel, table) THEN rest
             ELSE <<OrganDataset(table, panel.name, panel.biomarkers, global_covars, target_col)>>
                  \o rest

\* The warning lines the loop prints from its k-th panel on: the missing
\* biomarkers of an organ, and that an organ is skipped.
RECURSIVE DatasetWarnings(_, _, _)
DatasetWarnings(table, organ_panels, k) ==
    IF k > Len(organ_panels) THEN <<>>
    ELSE LET panel == organ_panels[k]
             missing_biomarkers == Range(panel.biomarkers) \ Range(table.columns)
         IN  (IF panel.name = "global_covariates" THEN <<>>
              ELSE (IF missing_biomarkers # {}
                    THEN <<[organ |-> panel.name, warning |-> "missing biomarkers"]>>
                    ELSE <<>>)
                   \o (IF Available(panel.biomarkers, table) = <<>>
                       THEN <<[organ |-> panel.name, warning |-> "no biomarkers available, skipping"]>>
                       ELSE <<>>))
             \o DatasetWarnings(table, organ_panels, k + 1)

build_organ_datasets(table, organ_panels, global_covars, target_col) ==
    IF target_col \notin Range(table.columns)
    THEN [raised |-> TRUE, value |-> None, stdout |-> <<>>]
    ELSE [raised |-> FALSE,
          value |-> DatasetLoop(table, organ_panels, global_covars, target_col, 1),
          stdout |-> DatasetWarnings(table, organ_panels, 1)]

InitDatasets ==
    /\ pc = "ready"
    /\ args \in [df : DatasetTables, organ_panels : PanelDicts, global_covars : CovarLists]
    /\ caller = [df |-> args.df, stdout |-> <<>>]
    /\ result = None

CallBuildDatasets ==
    /\ pc = "ready"
    /\ "organ_panels" \in DOMAIN args
    /\ LET out == build_organ_datasets(args.df, args.organ_panels, args.global_covars, "AGE")
       IN  /\ pc' = IF out.raised THEN "raised" ELSE "done"
           /\ result' = out.value
           /\ caller' = [caller EXCEPT !.stdout = out.stdout]
    /\ UNCHANGED args

NextDatasets == CallBuildDatasets

SpecDatasets == InitDatasets /\ [][NextDatasets]_vars

\* C4: every organ dataset (X, y) has X and y of the same length and row
\* index, no missing value in X nor in y, and holds a row of the input table
\* exactly when that row has no missing value in any selected feature column
\* nor in the target column, with the table's values.
C4_DatasetRows ==
    (pc = "done" /\ "organ_panels" \in DOMAIN args) =>
        \A d \in DOMAIN result :
            LET X == result[d].X
                y == result[d].y
            IN  /\ X.index = y.index
                /\ Len(y.values) = Len(y.index)
                /\ \A c \in Range(X.columns) : Len(X.data[c]) = Len(X.index)
                /\ \A c \in Range(X.columns) : NaN \notin Range(X.data[c])
                /\ NaN \notin Range(y.values)
                /\ \A i \in 1..NRows(args.df) :
                     (args.df.index[i] \in Range(X.index)) <=>
                        /\ \A c \in Range(X.columns) : args.df.data[c][i] # NaN
                        /\ args.df.data["AGE"][i] # NaN
                /\ \A k \in DOMAIN X.index :
                     \E i \in 1..NRows(args.df) :
                        /\ args.df.index[i] = X.index[k]
                        /\ y.values[k] = args.df.data["AGE"][i]
                        /\ \A c \in Range(X.columns) : X.data[c][k] = args.df.data[c][i]
                /\ (\A c \in Range(args.df.columns) : NaN \notin Range(args.df.data[c]))
                      => Len(y.values) = NRows(args.df)

\* C4 witness: a dataset that kept one row and dropped another, the dropped
\* one for a missing target only.
C4_Witness ==
    /\ pc = "done"
    /\ "organ_panels" \in DOMAIN args
    /\ NRows(args.df) = 2
    /\ args.df.data["AGE"][1] = NaN
    /\ \A c \in {"ALT", "AST", "SEX"} : NaN \notin Range(args.df.data[c])
    /\ Len(result) >= 1
    /\ result[1].X.index = <<1>>
    /\ Len(result[1].X.columns) >= 2

\* The panel of an organ in the mapping passed.
PanelOf(organ_panels, organ_name) ==
    organ_panels[CHOOSE k \in DOMAIN organ_panels : organ_panels[k].name = organ_name]

\* C13: the result has a dataset for exactly the panel keys, the reserved
\* 'global_covariates' apart, with at least one declared biomarker in the
\* table, in mapping order; an organ without one is skipped and the call
\* still returns; each dataset is the one the call gives for that organ's
\* panel alone; the feature columns are columns of the table, the declared
\* biomarkers among them being exactly the available ones.
C13_OrganIsolation ==
    ("organ_panels" \in DOMAIN args /\ pc # "ready") =>
        /\ pc = "done"
        /\ [d \in DOMAIN result |-> result[d].organ]
              = [k \in DOMAIN SelectSeq(args.organ_panels, LAMBDA q :
                        /\ q.name # "global_covariates"
                        /\ Range(q.biomarkers) \cap Range(args.df.columns) # {}) |->
                    SelectSeq(args.organ_panels, LAMBDA q :
                        /\ q.name # "global_covariates"
                        /\ Range(q.biomarkers) \cap Range(args.df.columns) # {})[k].name]
        /\ \A d \in DOMAIN result :
              LET panel == PanelOf(args.organ_panels, result[d].organ)
              IN  /\ <<result[d]>> = build_organ_datasets(args.df, <<panel>>,
                                                          args.global_covars, "AGE").value
                  /\ Range(result[d].X.columns) \subseteq Range(args.df.columns)
                  /\ Range(result[d].X.columns) \cap Range(panel.biomarkers)
                        = Range(panel.biomarkers) \cap Range(args.df.columns)
                  /\ \A c \in Range(result[d].X.columns) :
                        NaN \notin Range(result[d].X.data[c])
        /\ \A k \in DOMAIN args.organ_panels :
              LET q == args.organ_panels[k]
              IN  (/\ q.name # "global_covariates"
                   /\ Range(q.biomarkers) \cap Range(args.df.columns) = {}) =>
                      /\ \A d \in DOMAIN result : result[d].organ # q.name
                      /\ [organ |-> q.name, warning |-> "no biomarkers available, skipping"]
                            \in Range(caller.stdout)
        /\ caller.df = args.df

\* C13 witness: kidney has no biomarker in the table and is skipped, liver
\* after it is built from ALT without the missing CREAT, rows present.
C13_Witness ==
    /\ pc = "done"
    /\ "organ_panels" \in DOMAIN args
    /\ Len(args.organ_panels) = 2
    /\ args.organ_panels[1] = [name |-> "kidney", biomarkers |-> <<"CREAT">>]
    /\ args.organ_panels[2].biomarkers = <<"ALT", "CREAT">>
    /\ Len(result) = 1
    /\ result[1].organ = "liver"
    /\ result[1].X.columns = <<"ALT", "SEX">>
    /\ NRows(result[1].X) = 2
    /\ caller.stdout = <<[organ |-> "kidney", warning |-> "missing biomarkers"],
                         [organ |-> "kidney", warning |-> "no biomarkers available, skipping"],
                         [organ |-> "liver", warning |-> "missing biomarkers"]>>

\* The first position of a name in the declared biomarkers followed by the
\* declared covariates.
FirstDeclared(panel, global_covars, c) ==
    LET declared == panel.biomarkers \o global_covars
    IN  CHOOSE i \in DOMAIN declared :
            declared[i] = c /\ \A j \in 1..(i - 1) : declared[j] # c

\* C14: the feature columns of an organ are the available biomarkers in
\* panel order, then the available covariates in their order, each name once
\* at its first position.
C14_FeatureOrder ==
    (pc = "done" /\ "organ_panels" \in DOMAIN args) =>
        \A d \in DOMAIN result :
            LET panel == PanelOf(args.organ_panels, result[d].organ)
                cols == result[d].X.columns
            IN  /\ Range(cols) = (Range(panel.biomarkers) \cup Range(args.global_covars))
                                    \cap Range(args.df.columns)
                /\ \A i, j \in DOMAIN cols :
                      i < j => FirstDeclared(panel, args.global_covars, cols[i])
                                 < FirstDeclared(panel, args.global_covars, cols[j])

\* C14 witness: AST listed twice and ALT both biomarker and covariate.
C14_Witness ==
    /\ pc = "done"
    /\ "organ_panels" \in DOMAIN args
    /\ Len(args.organ_panels) = 2
    /\ args.organ_panels[1].biomarkers = <<"AST", "ALT", "AST">>
    /\ args.global_covars = <<"ALT", "SEX">>
    /\ result[1].X.columns = <<"AST", "ALT", "SEX">>
    /\ result[2].X.columns = <<"SEX", "ALT">>

(***************************************************************************)
(* features.py : split_train_val_test                                      *)
(* Fractions are whole percents (train_size = train_pct / 100).  For the   *)
(* fraction pairs and row counts below the floating-point products of the  *)
(* code have the same ceiling as the exact ones.                           *)
(***************************************************************************)
MaxSplitRows == 7
ExampleRows == 100
SplitFractions ==
    {<<60, 20>>, <<50, 25>>, <<80, 10>>, <<80, 20>>, <<70, 40>>, <<60, 0>>, <<10, 10>>}
Seeds == {0, 1, 42}
IndexSteps == {1, 2}
\* stratify_bins: 0 stands for the default None (both are false in
\* "if stratify_bins:")
StratifyBins == {0, 2, 3}

CeilDiv(a, b) == (a + b - 1) \div b

\* A dataset of n rows; with step 2 the row labels have holes, as after the
\* row filter of build_organ_datasets.
SplitX(n, step) ==
    [columns |-> <<"ALT">>,
     index   |-> [i \in 1..n |-> step * (i - 1)],
     data    |-> [c \in {"ALT"} |-> [i \in 1..n |-> 50 + i]]]

SplitY(n, step) ==
    [index  |-> [i \in 1..n |-> step * (i - 1)],
     values |-> [i \in 1..n |-> 20 + i]]

\* rng.permutation(n) of the generator seeded by random_state: a stand-in for
\* numpy's RandomState(seed), a bijection of 1..n that the seed and n
\* determine (the rows reversed, then rotated by the seed).
Permutation(random_state, n) ==
    [i \in 1..n |-> 1 + (((n - 1) * (i - 1) + random_state) % n)]

\* n_test = ceil(test_size * n_samples), with test_size = num / den
NTestFloor(n, num, den) == (num * n) \div den
NTest(n, num, den) == CeilDiv(num * n, den)

\* ind_test = permutation[:n_test]
TestPositions(perm, n_test) == SubSeq(perm, 1, n_test)

\* ind_train = permutation[n_test:(n_test + n_train)]
TrainPositionsOffByOne(perm, n_test, n_train) == SubSeq(perm, n_test, n_test + n_train - 1)
TrainPositions(perm, n_test, n_train) == SubSeq(perm, n_test + 1, n_test + n_train)

TakeSeriesRows(ser, pos) ==
    [index  |-> [k \in 1..Len(pos) |-> ser.index[pos[k]]],
     values |-> [k \in 1..Len(pos) |-> ser.values[pos[k]]]]

RECURSIVE SumSeq(_)
SumSeq(s) == IF s = <<>> THEN 0 ELSE s[1] + SumSeq(Tail(s))

SeqMin(s) == CHOOSE v \in Range(s) : \A w \in Range(s) : v <= w
SeqMax(s) == CHOOSE v \in Range(s) : \A w \in Range(s) : v >= w

\* pd.cut(y, bins=k, labels=False): k equal-width bins over [min, max], each
\* closed on the right, the first one widened to take the minimum; the bin
\* number of every value.  Equal values all fall in one bin.
pd_cut(values, bins) ==
    LET mn == SeqMin(values)
        mx == SeqMax(values)
    IN  [i \in DOMAIN values |->
            IF mx = mn THEN (bins - 1) \div 2
            ELSE IF values[i] = mn THEN 0
            ELSE CeilDiv((values[i] - mn) * bins, mx - mn) - 1]

\* np.unique(labels): the classes present, ascending
Classes(labels) ==
    SelectSeq([j \in 1..(SeqMax(labels) + 1) |-> j - 1], LAMBDA c : c \in Range(labels))

\* the positions of one class, in row order
ClassIndices(labels, c) ==
    SelectSeq([i \in 1..Len(labels) |-> i], LAMBDA i : labels[i] = c)

\* sklearn's _approximate_mode(class_counts, n_draws, rng): the share of each
\* class rounded down, the draws left over given to the classes with the
\* largest remainders; equal remainders are drawn by the generator (here: in
\* an order the seed determines).
approximate_mode(class_counts, n_draws, random_state) ==
    LET K == Len(class_counts)
        total == SumSeq(class_counts)
        floored == [k \in 1..K |-> (class_counts[k] * n_draws) \div total]
        remainder == [k \in 1..K |-> (class_counts[k] * n_draws) % total]
        need_to_add == n_draws - SumSeq(floored)
        tie == [k \in 1..K |-> (k + random_state) % K]
        Before(a, b) == \/ remainder[a] > remainder[b]
                        \/ remainder[a] = remainder[b] /\ tie[a] < tie[b]
    IN  [k \in 1..K |->
            IF Cardinality({j \in 1..K : Before(j, k)}) < need_to_add
            THEN floored[k] + 1 ELSE floored[k]]

RECURSIVE Concat(_)
Concat(ss) == IF ss = <<>> THEN <<>> ELSE ss[1] \o Concat(Tail(ss))

\* rng.permutation(s) of a list of positions
Shuffled(s, random_state) ==
    [j \in 1..Len(s) |-> s[Permutation(random_state, Len(s))[j]]]

\* StratifiedShuffleSplit._iter_indices: each class is permuted, its first
\* n_i members go to train and the next t_i to test, then both lists are
\* permuted.
StratifiedPositions(labels, n_train, n_test, random_state) ==
    LET classes == Classes(labels)
        K == Len(classes)
        class_counts == [k \in 1..K |-> Len(ClassIndices(labels, classes[k]))]
        n_i == approximate_mode(class_counts, n_train, random_state)
        t_i == approximate_mode([k \in 1..K |-> class_counts[k] - n_i[k]], n_test,
                                random_state)
        perm_indices(k) == Shuffled(ClassIndices(labels, classes[k]), random_state)
    IN  [train |-> Shuffled(Concat([k \in 1..K |-> SubSeq(perm_indices(k), 1, n_i[k])]),
                            random_state),
         test  |-> Shuffled(Concat([k \in 1..K |->
                                SubSeq(perm_indices(k), n_i[k] + 1, n_i[k] + t_i[k])]),
                            random_state)]

\* train_test_split(X, y, test_size=num/den, random_state=..., stratify=...):
\* a float test_size must lie strictly between 0 and 1, and neither part may
\* be empty.  With stratify labels every class needs two members and neither
\* part may be smaller than the number of classes.
train_test_split(X, y, num, den, random_state, stratify) ==
    LET n == NRows(X)
        n_test == NTest(n, num, den)
        n_train == n - n_test
        perm == Permutation(random_state, n)
    IN  IF num <= 0 \/ num >= den \/ n = 0 \/ n_train = 0
        THEN [raised |-> TRUE]
        ELSE IF stratify = None
        THEN [raised  |-> FALSE,
              X_train |-> TakeRows(X, X.columns, TrainPositions(perm, n_test, n_train)),
              X_test  |-> TakeRows(X, X.columns, TestPositions(perm, n_test)),
              y_train |-> TakeSeriesRows(y, TrainPositions(perm, n_test, n_train)),
              y_test  |-> TakeSeriesRows(y, TestPositions(perm, n_test))]
        ELSE LET classes == Classes(stratify.labels)
                 pos == StratifiedPositions(stratify.labels, n_train, n_test, random_state)
             IN  IF \/ \E k \in DOMAIN classes :
                           Len(ClassIndices(stratify.labels, classes[k])) < 2
                    \/ n_train < Len(classes)
                    \/ n_test < Len(classes)
                 THEN [raised |-> TRUE]
                 ELSE [raised  |-> FALSE,
                       X_train |-> TakeRows(X, X.columns, pos.train),
                       X_test  |-> TakeRows(X, X.columns, pos.test),
                       y_train |-> TakeSeriesRows(y, pos.train),
                       y_test  |-> TakeSeriesRows(y, pos.test)]

\* The seed of the generator a split draws from, draws splits having been
\* made before it: train_test_split(random_state=<int>) builds a new
\* generator from the integer each time it is called.
SeedCarried(random_state, draws) == random_state + draws
SplitSeed(random_state, draws) == random_state

\* val_size_adjusted = val_size / (train_size + val_size), as <<num, den>>
ValSizeUnadjusted(train_pct, val_pct) == <<val_pct, 100>>
ValSizeAdjusted(train_pct, val_pct) == <<val_pct, train_pct + val_pct>>

\* pd.cut of an empty vector raises.  The bins of the second split are cut
\* anew from the ages left after the first.
split_train_val_test(X, y, train_pct, val_pct, random_state, stratify_bins) ==
    LET test_pct == 100 - train_pct - val_pct
        stratify == IF stratify_bins # 0
                    THEN [labels |-> pd_cut(y.values, stratify_bins)] ELSE None
        first == train_test_split(X, y, test_pct, 100, SplitSeed(random_state, 0), stratify)
        adj == ValSizeAdjusted(train_pct, val_pct)
    IN  IF test_pct < 0 THEN [raised |-> TRUE, value |-> None]
        ELSE IF stratify_bins # 0 /\ NRows(X) = 0 THEN [raised |-> TRUE, value |-> None]
        ELSE IF first.raised THEN [raised |-> TRUE, value |-> None]
        ELSE IF adj[2] = 0 THEN [raised |-> TRUE, value |-> None]
        ELSE LET stratify_temp == IF stratify_bins # 0
                                  THEN [labels |-> pd_cut(first.y_train.values, stratify_bins)]
                                  ELSE None
                 second == train_test_split(first.X_train, first.y_train, adj[1], adj[2],
                                            SplitSeed(random_state, 1), stratify_temp)
             IN  IF second.raised THEN [raised |-> TRUE, value |-> None]
                 ELSE [raised |-> FALSE,
                       value |-> [X_train |-> second.X_train, X_val |-> second.X_test,
                                  X_test |-> first.X_test,
                                  y_train |-> second.y_train, y_val |-> second.y_test,
                                  y_test |-> first.y_test]]

\* The names the function holds for its stratification when it ends: the
\* bins of all rows (line 114), the rows left after the test carve-out and
\* the bins cut from them (line 129); None for what was not computed.
SplitLocals(X, y, train_pct, val_pct, random_state, stratify_bins) ==
    LET test_pct == 100 - train_pct - val_pct
        cut == stratify_bins # 0 /\ test_pct >= 0 /\ NRows(X) > 0
        age_bins == IF cut THEN [labels |-> pd_cut(y.values, stratify_bins)] ELSE None
        first == train_test_split(X, y, test_pct, 100, SplitSeed(random_state, 0), age_bins)
        recut == cut /\ ~first.raised /\ train_pct + val_pct # 0
    IN  [age_bins |-> age_bins,
         y_temp |-> IF recut THEN first.y_train ELSE None,
         stratify_temp |-> IF recut
                           THEN [labels |-> pd_cut(first.y_train.values, stratify_bins)]
                           ELSE None]

\* Ages of ten rows, two young and eight old.
SkewedAges == <<20, 21, 60, 61, 62, 63, 64, 65, 66, 67>>

InitSplit ==
    /\ pc = "ready"
    /\ \/ \E n \in (0..MaxSplitRows) \cup {ExampleRows}, step \in IndexSteps,
             f \in SplitFractions, seed \in Seeds, bins \in StratifyBins :
             args = [X |-> SplitX(n, step), y |-> SplitY(n, step),
                     train_pct |-> f[1], val_pct |-> f[2], random_state |-> seed,
                     stratify_bins |-> bins]
       \/ \E step \in IndexSteps, f \in SplitFractions, seed \in Seeds,
             bins \in StratifyBins :
             args = [X |-> SplitX(Len(SkewedAges), step),
                     y |-> [index |-> SplitY(Len(SkewedAges), step).index,
                            values |-> SkewedAges],
                     train_pct |-> f[1], val_pct |-> f[2], random_state |-> seed,
                     stratify_bins |-> bins]
    /\ caller = [X |-> args.X, y |-> args.y, age_bins |-> None, y_temp |-> None,
                 stratify_temp |-> None, calls |-> 0, first_result |-> None]
    /\ result = None

CallSplit ==
    /\ pc = "ready"
    /\ "train_pct" \in DOMAIN args
    /\ LET out == split_train_val_test(args.X, args.y, args.train_pct, args.val_pct,
                                       args.random_state, args.stratify_bins)
           locals == SplitLocals(args.X, args.y, args.train_pct, args.val_pct,
                                 args.random_state, args.stratify_bins)
       IN  /\ pc' = IF out.raised THEN "raised" ELSE "done"
           /\ result' = out.value
           /\ caller' = [caller EXCEPT !.age_bins = locals.age_bins,
                                       !.y_temp = locals.y_temp,
                                       !.stratify_temp = locals.stratify_temp,
                                       !.calls = 1]
    /\ UNCHANGED args

\* A second call with the arguments of the first, after the two splits the
\* first call made; the first call's result is remembered.
CallSplitAgain ==
    /\ pc = "done"
    /\ "train_pct" \in DOMAIN args
    /\ caller.calls = 1
    /\ \E out \in {split_train_val_test(args.X, args.y, args.train_pct, args.val_pct,
                                         SplitSeed(args.random_state, 2),
                                         args.stratify_bins)} :
           /\ pc' = IF out.raised THEN "raised" ELSE "done"
           /\ result' = out.value
           /\ caller' = [caller EXCEPT !.calls = 2, !.first_result = result]
    /\ UNCHANGED args

NextSplit == CallSplit \/ CallSplitAgain

SpecSplit == InitSplit /\ [][NextSplit]_vars

\* round(num / den), Python's round: to the nearest integer, a half to the
\* even neighbour.
RoundHalfEven(num, den) ==
    LET q == num \div den
        r == num % den
    IN  IF 2 * r < den THEN q
        ELSE IF 2 * r > den THEN q + 1
        ELSE IF q % 2 = 0 THEN q ELSE q + 1

\* C5 (as claimed): for every row count N the partitions have
\* |train| = round(train_size*N), |val| = round(val_size*N),
\* |test| = N - |train| - |val|.
C5_RoundedSizes ==
    (pc = "done" /\ "train_pct" \in DOMAIN args) =>
        LET n == NRows(args.X)
        IN  /\ NRows(result.X_train) = RoundHalfEven(args.train_pct * n, 100)
            /\ NRows(result.X_val) = RoundHalfEven(args.val_pct * n, 100)
            /\ NRows(result.X_test) = n - NRows(result.X_train) - NRows(result.X_val)

\* C5 (amended): |test| = ceil((1 - train_size - val_size) * N),
\* |val| = ceil(val_size / (train_size + val_size) * (N - |test|)),
\* |train| = N - |test| - |val|; for 0.6/0.2 and N a multiple of 5 these are
\* round(0.6 N), round(0.2 N) and the rest (100 rows: 60/20/20).
C5_CeilingSizes ==
    (pc = "done" /\ "train_pct" \in DOMAIN args) =>
        LET n == NRows(args.X)
            t == 100 - args.train_pct - args.val_pct
            n_test == (t * n + 99) \div 100
            d == args.train_pct + args.val_pct
            n_val == (args.val_pct * (n - n_test) + d - 1) \div d
        IN  /\ NRows(result.X_test) = n_test
            /\ NRows(result.X_val) = n_val
            /\ NRows(result.X_train) = n - n_test - n_val
            /\ Len(result.y_train.values) = NRows(result.X_train)
            /\ Len(result.y_val.values) = NRows(result.X_val)
            /\ Len(result.y_test.values) = NRows(result.X_test)
            /\ (args.train_pct = 60 /\ args.val_pct = 20 /\ n % 5 = 0) =>
                  /\ NRows(result.X_train) = RoundHalfEven(60 * n, 100)
                  /\ NRows(result.X_val) = RoundHalfEven(20 * n, 100)
                  /\ NRows(result.X_test) = n - NRows(result.X_train) - NRows(result.X_val)
            /\ (args.train_pct = 60 /\ args.val_pct = 20 /\ n = ExampleRows) =>
                  /\ NRows(result.X_train) = 60
                  /\ NRows(result.X_val) = 20
                  /\ NRows(result.X_test) = 20

\* C5 witness: 0.6/0.2 on 6 rows gives 3/1/2, not round(3.6)/round(1.2)/1.
C5_Witness ==
    /\ pc = "done"
    /\ "train_pct" \in DOMAIN args
    /\ args.train_pct = 60 /\ args.val_pct = 20
    /\ NRows(args.X) = 6
    /\ NRows(result.X_train) = 3
    /\ NRows(result.X_val) = 1
    /\ NRows(result.X_test) = 2

\* C6: train, validation and test are a partition of the input rows: their
\* row index sets are pairwise disjoint, their union is the input row index
\* set, no row is repeated, and each y part has the row index of its X part.
C6_Partition ==
    (pc = "done" /\ "train_pct" \in DOMAIN args) =>
        LET tr == Range(result.X_train.index)
            va == Range(result.X_val.index)
            te == Range(result.X_test.index)
        IN  /\ tr \cap va = {} /\ tr \cap te = {} /\ va \cap te = {}
            /\ tr \cup va \cup te = Range(args.X.index)
            /\ Cardinality(tr) = NRows(result.X_train)
            /\ Cardinality(va) = NRows(result.X_val)
            /\ Cardinality(te) = NRows(result.X_test)
            /\ result.y_train.index = result.X_train.index
            /\ result.y_val.index = result.X_val.index
            /\ result.y_test.index = result.X_test.index

\* C6 witness: a split of 7 rows with holes in the row labels, stratified
\* over two age bins, shuffled (the test part is not the first rows), every
\* part non-empty.
C6_Witness ==
    /\ pc = "done"
    /\ "train_pct" \in DOMAIN args
    /\ NRows(args.X) = 7
    /\ args.stratify_bins = 2
    /\ args.X.index[2] = 2
    /\ NRows(result.X_val) >= 2
    /\ result.X_test.index # SubSeq(args.X.index, 1, NRows(result.X_test))

\* The number of rows of a part (a series) whose row was put in bin b of
\* age_bins.
CountInBin(part, b) ==
    Cardinality({k \in DOMAIN part.index :
                    \E i \in DOMAIN args.y.index :
                       /\ args.y.index[i] = part.index[k]
                       /\ caller.age_bins.labels[i] = b})

\* C19 (as claimed): with stratify_bins the ages are cut into equal-width
\* bins, the second split stratifies on the bin each row got in the first,
\* and within each bin the test part and then the validation part take
\* their share of the rows (to within one row).
C19_StratifiedSameBins ==
    ("train_pct" \in DOMAIN args /\ pc # "ready" /\ args.stratify_bins # 0) =>
        /\ (caller.age_bins # None) =>
              LET mn == SeqMin(args.y.values)
                  R == SeqMax(args.y.values) - mn
              IN  R > 0 =>
                    \A i \in DOMAIN args.y.values :
                       LET b == caller.age_bins.labels[i]
                           v == (args.y.values[i] - mn) * args.stratify_bins
                       IN  /\ b \in 0..(args.stratify_bins - 1)
                           /\ v <= (b + 1) * R
                           /\ v > b * R \/ (b = 0 /\ v = 0)
        /\ (caller.stratify_temp # None) =>
              \A k \in DOMAIN caller.y_temp.index :
                 \A i \in DOMAIN args.y.index :
                    args.y.index[i] = caller.y_temp.index[k] =>
                       caller.stratify_temp.labels[k] = caller.age_bins.labels[i]
        /\ (pc = "done") =>
              \A b \in 0..(args.stratify_bins - 1) :
                 LET N == Len(args.y.values)
                     c == CountInBin(args.y, b)
                     t == CountInBin(result.y_test, b)
                     v == CountInBin(result.y_val, b)
                     n_temp == N - Len(result.y_test.values)
                 IN  /\ t * N - c * Len(result.y_test.values) < N
                     /\ c * Len(result.y_test.values) - t * N < N
                     /\ v * n_temp - (c - t) * Len(result.y_val.values) < n_temp
                     /\ (c - t) * Len(result.y_val.values) - v * n_temp < n_temp

\* The first half of C19 alone: equal-width bins, and the test carve-out
\* takes its share of every bin.
C19_TestCarveOut ==
    ("train_pct" \in DOMAIN args /\ pc = "done" /\ args.stratify_bins # 0) =>
        \A b \in 0..(args.stratify_bins - 1) :
           LET N == Len(args.y.values)
               c == CountInBin(args.y, b)
               t == CountInBin(result.y_test, b)
           IN  /\ t * N - c * Len(result.y_test.values) < N
               /\ c * Len(result.y_test.values) - t * N < N

\* What the code does on the skewed ages with 0.1/0.1 and two bins: both
\* young rows go to test, the two old rows left are cut anew into two bins
\* of one row each, and the second split is refused.
C19_RebinnedRaises ==
    /\ "train_pct" \in DOMAIN args
    /\ pc = "raised"
    /\ args.y.values = SkewedAges
    /\ args.train_pct = 10 /\ args.val_pct = 10 /\ args.stratify_bins = 2
    /\ caller.age_bins.labels = <<0, 0, 1, 1, 1, 1, 1, 1, 1, 1>>
    /\ Len(caller.y_temp.values) = 2
    /\ Range(caller.stratify_temp.labels) = {0, 1}

(***************************************************************************)
(* features.py : scale_features                                            *)
(* Scaler parameters and scaled cells are kept exact: a mean is sum / n, a  *)
(* variance (n * sumsq - sum^2) / n^2, a quartile is held as 4 times its    *)
(* value; a scaled cell is num / sqrt(den) (standard) or num / den (robust).*)
(***************************************************************************)
MaxTrainRows == 3
FeatureValues == {1, 2, 4}
ScaleMethods == {"standard", "robust", "minmax"}

\* A feature matrix with two columns and row labels with holes.
FeatureMatrix(vals) ==
    [columns |-> <<"ALT", "SEX">>,
     index   |-> [i \in 1..Len(vals) |-> 2 * i + 1],
     data    |-> [c \in {"ALT", "SEX"} |->
                    IF c = "ALT" THEN vals ELSE [i \in 1..Len(vals) |-> 1 + (vals[i] % 2)]]]

TrainMatrices == {FeatureMatrix(v) : v \in SeqsUpTo(FeatureValues, MaxTrainRows)}
OtherMatrices == {None} \cup {FeatureMatrix(v) : v \in {<<>>, <<1>>, <<4, 2>>}}

Sorted(s) == SortSeq(s, LAMBDA a, b : a < b)

\* 4 * np.percentile(s, p) for p in {25, 50, 75}, linear interpolation:
\* position (n - 1) * p / 100 counted from 0.
Percentile4(s, p) ==
    LET v == Sorted(s)
        h4 == (Len(s) - 1) * (p \div 25)
        lo == (h4 \div 4) + 1
        r == h4 % 4
    IN  IF r = 0 THEN 4 * v[lo] ELSE (4 - r) * v[lo] + r * v[lo + 1]

\* StandardScaler().fit: mean_ and var_ of one column (a zero variance is
\* scaled by 1); RobustScaler().fit: center_ (median) and scale_ (q75 - q25,
\* a zero range is scaled by 1).
FitColumn(method, s) ==
    IF method = "standard"
    THEN LET n == Len(s)
             S == SumSeq(s)
             Q == SumSeq([i \in DOMAIN s |-> s[i] * s[i]])
         IN  [n |-> n, sum |-> S, var_num |-> n * Q - S * S]
    ELSE [center4 |-> Percentile4(s, 50),
          scale4  |-> Percentile4(s, 75) - Percentile4(s, 25)]

\* scaler.transform of one cell with the fitted parameters of its column.
TransformCell(method, params, x) ==
    IF method = "standard"
    THEN [num |-> x * params.n - params.sum,
          den |-> IF params.var_num = 0 THEN params.n * params.n ELSE params.var_num,
          root |-> params.var_num # 0]
    ELSE [num |-> 4 * x - params.center4,
          den |-> IF params.scale4 = 0 THEN 4 ELSE params.scale4,
          root |-> FALSE]

\* The rows the scaler is fitted on: scaler.fit_transform(X_train).
FitRowsWithValidation(X_train, X_val, X_test) ==
    IF X_val = None THEN X_train
    ELSE [columns |-> X_train.columns,
          index   |-> X_train.index \o X_val.index,
          data    |-> [c \in Range(X_train.columns) |-> X_train.data[c] \o X_val.data[c]]]
FitRows(X_train, X_val, X_test) == X_train

Fit(method, X) ==
    [method |-> method,
     params |-> [c \in Range(X.columns) |-> FitColumn(method, X.data[c])]]

\* pd.DataFrame(scaler.transform(X), columns=X.columns, index=X.index)
Transform(scaler, X) ==
    [columns |-> X.columns,
     index   |-> X.index,
     data    |-> [c \in Range(X.columns) |->
                    [i \in 1..NRows(X) |->
                        TransformCell(scaler.method, scaler.params[c], X.data[c][i])]]]

\* An unknown method raises before any fit; fitting or transforming a matrix
\* without rows raises in the scaler.
\* error names what was raised, fitted tells whether the scaler had been
\* fitted when the call ended.
KnownScaleMethodsAll(method) == TRUE
KnownScaleMethods(method) == method \in {"standard", "robust"}

scale_features(X_train, X_val, X_test, method) ==
    IF ~KnownScaleMethods(method)
    THEN [raised |-> TRUE, value |-> None, error |-> "Unknown scaling method", fitted |-> FALSE]
    ELSE IF NRows(FitRows(X_train, X_val, X_test)) = 0
    THEN [raised |-> TRUE, value |-> None, error |-> "ValueError", fitted |-> FALSE]
    ELSE IF \E M \in {X_val, X_test} : M # None /\ NRows(M) = 0
         THEN [raised |-> TRUE, value |-> None, error |-> "ValueError", fitted |-> TRUE]
    ELSE LET scaler == Fit(method, FitRows(X_train, X_val, X_test))
         IN  [raised |-> FALSE, error |-> "", fitted |-> TRUE,
              value |-> [X_train_scaled |-> Transform(scaler, X_train),
                         X_val_scaled   |-> IF X_val = None THEN None
                                            ELSE Transform(scaler, X_val),
                         X_test_scaled  |-> IF X_test = None THEN None
                                            ELSE Transform(scaler, X_test),
                         scaler         |-> scaler]]

InitScale ==
    /\ pc = "ready"
    /\ args \in [X_train : TrainMatrices, X_val : OtherMatrices, X_test : OtherMatrices,
                 method : ScaleMethods]
    /\ caller = [calls |-> 0]
    /\ result = None

CallScale ==
    /\ pc = "ready"
    /\ "X_train" \in DOMAIN args
    /\ LET out == scale_features(args.X_train, args.X_val, args.X_test, args.method)
       IN  /\ pc' = IF out.raised THEN "raised" ELSE "done"
           /\ result' = out.value
    /\ caller' = [calls |-> 1]
    /\ UNCHANGED args

\* A second call with the same X_train and method and any other validation
\* and test matrices; the first call's arguments and result are remembered.
CallScaleAgain ==
    /\ pc = "done"
    /\ "X_train" \in DOMAIN args
    /\ caller.calls = 1
    /\ \E X_val \in OtherMatrices, X_test \in OtherMatrices :
         LET out == scale_features(args.X_train, X_val, X_test, args.method)
         IN  /\ args' = [args EXCEPT !.X_val = X_val, !.X_test = X_test]
             /\ pc' = IF out.raised THEN "raised" ELSE "done"
             /\ result' = out.value
             /\ caller' = [calls |-> 2, first_args |-> args, first_result |-> result]

NextScale == CallScale \/ CallScaleAgain

SpecScale == InitScale /\ [][NextScale]_vars

\* C7: the scaler is fitted on the training matrix alone: two calls with the
\* same X_train and method return the same scaler parameters and the same
\* scaled training matrix whatever X_val and X_test are (None included);
\* validation and test are transformed with that fit, and every scaled matrix
\* keeps the row index and the column names of its input.
C7_FitOnTrainOnly ==
    (pc = "done" /\ "X_train" \in DOMAIN args) =>
        /\ caller.calls = 2 =>
             /\ result.scaler = caller.first_result.scaler
             /\ result.X_train_scaled = caller.first_result.X_train_scaled
        /\ result.X_train_scaled.index = args.X_train.index
        /\ result.X_train_scaled.columns = args.X_train.columns
        /\ (args.X_val = None) <=> (result.X_val_scaled = None)
        /\ (args.X_test = None) <=> (result.X_test_scaled = None)
        /\ \A pair \in {<<args.X_val, result.X_val_scaled>>, <<args.X_test, result.X_test_scaled>>} :
             pair[1] # None =>
                /\ pair[2].index = pair[1].index
                /\ pair[2].columns = pair[1].columns
                /\ \A c \in Range(pair[1].columns) : \A i \in 1..NRows(pair[1]) :
                     /\ pair[2].data[c][i] =
                           TransformCell(result.scaler.method, result.scaler.params[c],
                                         pair[1].data[c][i])
                     \* a cell equal to a training cell is scaled as that training cell
                     /\ \A k \in 1..NRows(args.X_train) :
                           args.X_train.data[c][k] = pair[1].data[c][i] =>
                               pair[2].data[c][i] = result.X_train_scaled.data[c][k]

\* C7 witness: a second call whose validation and test matrices differ from
\* the first call's (one of them None) on a training matrix of three
\* different rows.
C7_Witness ==
    /\ pc = "done"
    /\ "X_train" \in DOMAIN args
    /\ caller.calls = 2
    /\ NRows(args.X_train) = 3
    /\ Cardinality(Range(args.X_train.data["ALT"])) = 3
    /\ caller.first_args.X_val = None
    /\ args.X_val # None
    /\ args.X_test # caller.first_args.X_test
    /\ args.X_val.data["ALT"] = <<4, 2>>

(***************************************************************************)
(* evaluation.py : compare_models                                          *)
(* Metric values are held in hundredths (mae 5.2 is 520).                  *)
(***************************************************************************)
MaxModels == 3
ModelNames == <<"liver_linear", "liver_nonlinear", "kidney_linear", "kidney_nonlinear">>
MaeValues == {380, 490, 520}
R2Values == {75, 78, 85}
SortMetrics == {"mae", "rmse", "r2", "mape"}

\* The metrics dictionary of one model, as calculate_metrics returns it.
MetricsOf(mae, r2) == [mae |-> mae, rmse |-> mae + 130, r2 |-> r2]

\* models_metrics: model name -> metrics, in insertion order.
ModelsMetrics ==
    UNION {{[k \in 1..n |-> [model_name |-> ModelNames[k], metrics |-> m[k]]] :
              m \in [1..n -> {MetricsOf(a, r) : a \in MaeValues, r \in R2Values}]} :
           n \in 0..MaxModels}

\* row = {'model_name': model_name}; row.update(metrics)
ComparisonRow(entry) ==
    [c \in {"model_name"} \cup DOMAIN entry.metrics |->
        IF c = "model_name" THEN entry.model_name ELSE entry.metrics[c]]

\* comparison_df.columns: no column at all for an empty comparison_data
ComparisonColumns(rows) == UNION {DOMAIN rows[k] : k \in DOMAIN rows}

\* ascending = (metric != 'r2')
AscendingAlways(metric) == TRUE
Ascending(metric) == metric # "r2"

InOrder(a, b, ascending) == IF ascending THEN a <= b ELSE a >= b

\* sort_values(metric, ascending=ascending): the orders of the rows that are
\* sorted by the metric; equal values may come out in any order (the default
\* sort kind is not stable).
SortedOrders(rows, metric, ascending) ==
    {p \in [1..Len(rows) -> 1..Len(rows)] :
        /\ \A i, j \in 1..Len(rows) : i # j => p[i] # p[j]
        /\ \A i \in 1..(Len(rows) - 1) :
             InOrder(rows[p[i]][metric], rows[p[i + 1]][metric], ascending)}

\* The tables compare_models can return.
compare_models(models_metrics, metric) ==
    LET comparison_data == [k \in 1..Len(models_metrics) |-> ComparisonRow(models_metrics[k])]
    IN  IF metric \in ComparisonColumns(comparison_data)
        THEN {[i \in 1..Len(comparison_data) |-> comparison_data[p[i]]] :
                p \in SortedOrders(comparison_data, metric, Ascending(metric))}
        ELSE {comparison_data}

InitCompare ==
    /\ pc = "ready"
    /\ args \in [models_metrics : ModelsMetrics, metric : SortMetrics]
    /\ caller = [models_metrics |-> args.models_metrics]
    /\ result = None

CallCompare ==
    /\ pc = "ready"
    /\ "models_metrics" \in DOMAIN args
    /\ result' \in compare_models(args.models_metrics, args.metric)
    /\ pc' = "done"
    /\ UNCHANGED <<args, caller>>

NextCompare == CallCompare

SpecCompare == InitCompare /\ [][NextCompare]_vars

\* C8: the comparison has one row per named model, carrying that model's
\* metrics; it is sorted ascending by the chosen metric for mae and rmse and
\* descending for r2, and keeps insertion order when the chosen metric is not
\* a column of the table.
C8_CompareOrder ==
    (pc = "done" /\ "models_metrics" \in DOMAIN args) =>
        LET mm == args.models_metrics
        IN  /\ Len(result) = Len(mm)
            /\ \A k \in DOMAIN mm :
                 \E i \in DOMAIN result :
                    /\ result[i].model_name = mm[k].model_name
                    /\ \A c \in DOMAIN mm[k].metrics : result[i][c] = mm[k].metrics[c]
            /\ (args.metric \in {"mae", "rmse"} /\ mm # <<>>) =>
                 \A i \in 1..(Len(result) - 1) :
                    result[i][args.metric] <= result[i + 1][args.metric]
            /\ (args.metric = "r2" /\ mm # <<>>) =>
                 \A i \in 1..(Len(result) - 1) : result[i].r2 >= result[i + 1].r2
            /\ (mm = <<>> \/ args.metric \notin {"mae", "rmse", "r2"}) =>
                 \A k \in DOMAIN mm : result[k].model_name = mm[k].model_name
            \* the documented example: MAE [5.2, 3.8, 4.9]
            /\ (/\ args.metric = "mae"
                /\ [k \in DOMAIN mm |-> mm[k].metrics.mae] = <<520, 380, 490>>) =>
                 [k \in DOMAIN result |-> result[k].model_name] =
                     <<"liver_nonlinear", "kidney_linear", "liver_linear">>

\* C8 witness: the documented models, sorted by r2: 0.85, 0.78, 0.75.
C8_Witness ==
    /\ pc = "done"
    /\ "models_metrics" \in DOMAIN args
    /\ args.metric = "r2"
    /\ Len(args.models_metrics) = 3
    /\ [k \in 1..3 |-> args.models_metrics[k].metrics.mae] = <<520, 380, 490>>
    /\ [k \in 1..3 |-> args.models_metrics[k].metrics.r2] = <<75, 85, 78>>
    /\ [k \in 1..3 |-> result[k].model_name] =
          <<"liver_nonlinear", "kidney_linear", "liver_linear">>
    /\ [k \in 1..3 |-> result[k].r2] = <<85, 78, 75>>

(***************************************************************************)
(* analysis.py : identify_fastest_aging_organs                             *)
(***************************************************************************)
MaxFastestRows == 2
GapCellValues == {-2, 0, 3, NaN}
GapOrgans == <<"liver", "kidney">>

\* A gap table: SEQN and one <organ>_age_gap column per organ.  A row whose
\* organ gaps are all missing is left out: what idxmax returns for it depends
\* on the pandas version.
FastestTable(cells) ==
    [columns |-> <<"SEQN">> \o [k \in DOMAIN GapOrgans |-> GapOrgans[k] \o "_age_gap"],
     index   |-> [i \in 1..Len(cells) |-> i - 1],
     data    |-> [c \in {"SEQN"} \cup {GapOrgans[k] \o "_age_gap" : k \in DOMAIN GapOrgans} |->
                    IF c = "SEQN" THEN [i \in 1..Len(cells) |-> 100 + i]
                    ELSE [i \in 1..Len(cells) |->
                            cells[i][CHOOSE k \in DOMAIN GapOrgans : GapOrgans[k] \o "_age_gap" = c]]]]

FastestTables ==
    {FastestTable(cells) :
        cells \in SeqsUpTo({r \in [DOMAIN GapOrgans -> GapCellValues] :
                              \E k \in DOMAIN GapOrgans : r[k] # NaN}, MaxFastestRows)}

\* str.endswith
endswith(str, suffix) ==
    /\ Len(str) >= Len(suffix)
    /\ SubSeq(str, Len(str) - Len(suffix) + 1, Len(str)) = suffix

\* str.replace(old, new): every occurrence, left to right
RECURSIVE str_replace(_, _, _)
str_replace(str, old, new) ==
    IF Len(str) < Len(old) THEN str
    ELSE IF SubSeq(str, 1, Len(old)) = old
         THEN new \o str_replace(SubSeq(str, Len(old) + 1, Len(str)), old, new)
         ELSE SubSeq(str, 1, 1) \o str_replace(SubSeq(str, 2, Len(str)), old, new)

\* gap_columns = [col for col in df.columns if col.endswith('_age_gap')]
AutoGapColumns(table) == SelectSeq(table.columns, LAMBDA c : endswith(c, "_age_gap"))

\* df[gap_columns].max(axis=1) at row i: missing cells are skipped
RowMax(table, gap_columns, i) ==
    LET present == {table.data[gap_columns[k]][i] : k \in DOMAIN gap_columns} \ {NaN}
    IN  IF present = {} THEN NaN ELSE CHOOSE m \in present : \A v \in present : v <= m

\* df[gap_columns].idxmax(axis=1) at row i: the first column holding the maximum
RowIdxMax(table, gap_columns, i) ==
    LET m == RowMax(table, gap_columns, i)
        first == CHOOSE k \in DOMAIN gap_columns :
                    /\ table.data[gap_columns[k]][i] = m
                    /\ \A j \in 1..(k - 1) : table.data[gap_columns[j]][i] # m
    IN  gap_columns[first]

FastestPerIndividual(table, gap_columns) ==
    LET organs == [i \in 1..NRows(table) |->
                     str_replace(RowIdxMax(table, gap_columns, i), "_age_gap", "")]
        withOrgan == SetColumn(table, "fastest_aging_organ", organs)
    IN  SetColumn(withOrgan, "max_age_gap",
                  [i \in 1..NRows(table) |-> RowMax(table, gap_columns, i)])

\* df[col].mean(), missing cells skipped, as sum and count
ColumnMean(table, c) ==
    LET present == SelectSeq(table.data[c], LAMBDA v : v # NaN)
    IN  [sum |-> SumSeq(present), count |-> Len(present)]

\* a comes before b in sort_values(ascending=False); a missing mean goes last
MeanNotBelow(a, b) ==
    \/ b.count = 0
    \/ a.count > 0 /\ a.sum * b.count >= b.sum * a.count

\* The rankings the population branch can return (equal means in any order).
FastestRanking(table, gap_columns) ==
    LET means == [k \in DOMAIN gap_columns |-> ColumnMean(table, gap_columns[k])]
    IN  {[i \in DOMAIN gap_columns |->
            [organ |-> str_replace(gap_columns[p[i]], "_age_gap", ""),
             mean_age_gap |-> means[p[i]]]] :
         p \in {q \in [DOMAIN gap_columns -> DOMAIN gap_columns] :
                  /\ \A i, j \in DOMAIN gap_columns : i # j => q[i] # q[j]
                  /\ \A i \in 1..(Len(gap_columns) - 1) : MeanNotBelow(means[q[i]], means[q[i + 1]])}}

\* The values identify_fastest_aging_organs(df, gap_columns=None, ...) can return.
identify_fastest_aging_organs(table, per_individual) ==
    LET gap_columns == AutoGapColumns(table)
    IN  IF per_individual THEN {FastestPerIndividual(table, gap_columns)}
        ELSE FastestRanking(table, gap_columns)

InitFastest ==
    /\ pc = "ready"
    /\ args \in [df : FastestTables, per_individual : BOOLEAN]
    /\ caller = [calls |-> 0]
    /\ result = None

CallFastest ==
    /\ pc = "ready"
    /\ "per_individual" \in DOMAIN args
    /\ result' \in identify_fastest_aging_organs(args.df, args.per_individual)
    /\ pc' = IF args.per_individual THEN "done" ELSE "ranked"
    /\ caller' = [calls |-> 1]
    /\ UNCHANGED args

\* The function applied to the table a per-individual call returned.
CallFastestOnResult ==
    /\ pc = "done"
    /\ "per_individual" \in DOMAIN args
    /\ caller.calls = 1
    /\ \E per_individual \in BOOLEAN :
         /\ args' = [df |-> result, per_individual |-> per_individual]
         /\ result' \in identify_fastest_aging_organs(result, per_individual)
         /\ pc' = IF per_individual THEN "done" ELSE "ranked"
    /\ caller' = [calls |-> 2, first_result |-> result]

NextFastest == CallFastest \/ CallFastestOnResult

SpecFastest == InitFastest /\ [][NextFastest]_vars

OrganGapColumns(table) == SelectSeq(AutoGapColumns(table), LAMBDA c : c # "max_age_gap")

\* C9 (as claimed): with auto-detected gap columns, max_age_gap is the
\* row-wise maximum over the organ gap columns only, 'max' is never named as
\* an organ, neither per individual nor in the population ranking, and a
\* second application gives the fastest_aging_organ and max_age_gap of the
\* first.
C9_AggregateExcluded ==
    ("per_individual" \in DOMAIN args) =>
        /\ pc = "done" =>
             /\ \A i \in 1..NRows(result) :
                  /\ result.data["max_age_gap"][i] = RowMax(args.df, OrganGapColumns(args.df), i)
                  /\ result.data["fastest_aging_organ"][i] # "max"
             /\ caller.calls = 2 =>
                  /\ result.data["max_age_gap"] = caller.first_result.data["max_age_gap"]
                  /\ result.data["fastest_aging_organ"] =
                        caller.first_result.data["fastest_aging_organ"]
        /\ pc = "ranked" => \A k \in DOMAIN result : result[k].organ # "max"

\* The per-individual half of C9 taken alone.
C9_PerIndividualOnly ==
    (pc = "done" /\ "per_individual" \in DOMAIN args) =>
        /\ \A i \in 1..NRows(result) :
             /\ result.data["max_age_gap"][i] = RowMax(args.df, OrganGapColumns(args.df), i)
             /\ result.data["fastest_aging_organ"][i] # "max"
        /\ caller.calls = 2 =>
             /\ result.data["max_age_gap"] = caller.first_result.data["max_age_gap"]
             /\ result.data["fastest_aging_organ"] =
                   caller.first_result.data["fastest_aging_organ"]

(***************************************************************************)
(* save_kmeans_clusters.py : the script body                               *)
(***************************************************************************)
MaxKmeansRows == 4
n_clusters == 3
NotClustered == -1

\* The gap cells of one row of age_gaps.parquet: complete, or one gap missing.
KmeansRowKinds == {<<0, 3>>, <<3, 0>>, <<NaN, 3>>, <<0, NaN>>}

\* age_gaps.parquet as loaded: row labels are those of the table it was
\* saved from (unique, not 0..n-1), with or without a max_age_gap column.
AgeGapsTable(rows, withMax) ==
    LET cols == <<"SEQN", "liver_age_gap", "kidney_age_gap">>
                \o (IF withMax THEN <<"max_age_gap">> ELSE <<>>)
    IN  [columns |-> cols,
         index   |-> [i \in 1..Len(rows) |-> 10 + 2 * i],
         data    |-> [c \in Range(cols) |->
                        [i \in 1..Len(rows) |->
                            CASE c = "SEQN" -> 100 + i
                              [] c = "liver_age_gap" -> rows[i][1]
                              [] c = "kidney_age_gap" -> rows[i][2]
                              [] OTHER -> IF rows[i][1] = NaN THEN rows[i][2]
                                          ELSE IF rows[i][2] = NaN THEN rows[i][1]
                                          ELSE IF rows[i][1] >= rows[i][2] THEN rows[i][1]
                                          ELSE rows[i][2]]]]

AgeGapsTables ==
    {AgeGapsTable(rows, withMax) :
        rows \in SeqsUpTo(KmeansRowKinds, MaxKmeansRows), withMax \in BOOLEAN}

\* [col for col in age_gaps_df.columns if col.endswith('_age_gap') and col != 'max_age_gap']
KmeansGapColumns(table) ==
    SelectSeq(table.columns, LAMBDA c : endswith(c, "_age_gap") /\ c # "max_age_gap")

\* age_gaps_df[gap_columns].dropna(): the rows without a missing value, each
\* keeping its row label
DropNa(table, cols) ==
    TakeRows(table, cols,
             SelectSeq([i \in 1..NRows(table) |-> i],
                       LAMBDA i : \A c \in Range(cols) : table.data[c][i] # NaN))

\* KMeans(n_clusters=3, random_state=42, n_init=10).fit_predict(X): one label
\* in 0..n_clusters-1 per row of X; which one is the library's business.
\* Fewer rows than clusters is an error.
KMeansLabelings(X) == [1..NRows(X) -> 0..(n_clusters - 1)]

\* hdbscan.HDBSCAN(min_cluster_size=10, min_samples=5).fit_predict(X): a
\* cluster number from 0 on, or -1 (noise), per row.
HdbscanLabelings(X) == [1..NRows(X) -> -1..1]

\* hdbscan is an optional package: hdbscan_installed tells whether its import
\* succeeds.  error names what was raised, fitted tells whether a
\* clustering model was fitted; may_raise tells that the library may also
\* refuse the data.
perform_clustering(X, method, hdbscan_installed) ==
    IF method = "kmeans"
    THEN IF NRows(X) < n_clusters
         THEN [raised |-> TRUE, labelings |-> {}, error |-> "ValueError", fitted |-> FALSE,
               may_raise |-> TRUE]
         ELSE [raised |-> FALSE, labelings |-> KMeansLabelings(X), error |-> "",
               fitted |-> TRUE, may_raise |-> FALSE]
    ELSE IF method = "hdbscan"
    THEN IF ~hdbscan_installed
         THEN [raised |-> TRUE, labelings |-> {}, error |-> "ImportError", fitted |-> FALSE,
               may_raise |-> TRUE]
         ELSE IF NRows(X) = 0
         THEN [raised |-> TRUE, labelings |-> {}, error |-> "ValueError", fitted |-> FALSE,
               may_raise |-> TRUE]
         ELSE [raised |-> FALSE, labelings |-> HdbscanLabelings(X), error |-> "",
               fitted |-> TRUE, may_raise |-> TRUE]
    ELSE [raised |-> TRUE, labelings |-> {}, error |-> "Unknown clustering method",
          fitted |-> FALSE, may_raise |-> TRUE]

\* age_gaps_df.loc[X_gaps.index, 'cluster_kmeans'] = cluster_labels + 1
\* over a column preset to -1: the row whose label is the k-th label of
\* X_gaps gets the k-th cluster label plus one.
AssignByPosition(table, labels_index, cluster_labels) ==
    [i \in 1..NRows(table) |->
        IF i <= Len(cluster_labels) THEN cluster_labels[i] + 1 ELSE NotClustered]
AssignByLabel(table, labels_index, cluster_labels) ==
    [i \in 1..NRows(table) |->
        IF \E k \in DOMAIN labels_index : labels_index[k] = table.index[i]
        THEN cluster_labels[CHOOSE k \in DOMAIN labels_index : labels_index[k] = table.index[i]] + 1
        ELSE NotClustered]

InitKmeans ==
    /\ pc = "ready"
    /\ args \in [age_gaps_df : AgeGapsTables]
    /\ caller = [saved |-> FALSE]
    /\ result = None

\* The whole script: load, cluster the complete rows, label, save.  caller
\* holds the script's own names after the run, result the table written back.
RunSaveKmeans ==
    /\ pc = "ready"
    /\ "age_gaps_df" \in DOMAIN args
    /\ LET gap_columns == KmeansGapColumns(args.age_gaps_df)
           X_gaps == DropNa(args.age_gaps_df, gap_columns)
           out == perform_clustering(X_gaps, "kmeans", FALSE)
       IN  IF out.raised
           THEN /\ pc' = "raised"
                /\ result' = None
                /\ caller' = [saved |-> FALSE]
           ELSE \E cluster_labels \in out.labelings :
                /\ pc' = "done"
                /\ result' = SetColumn(args.age_gaps_df, "cluster_kmeans",
                                       AssignByLabel(args.age_gaps_df, X_gaps.index, cluster_labels))
                /\ caller' = [saved |-> TRUE, gap_columns |-> gap_columns,
                              X_gaps |-> X_gaps, cluster_labels |-> cluster_labels]
    /\ UNCHANGED args

NextKmeans == RunSaveKmeans

SpecKmeans == InitKmeans /\ [][NextKmeans]_vars

\* The organ gap columns of the loaded table, and whether row i has them all.
IsOrganGap(c) == c \in {"liver_age_gap", "kidney_age_gap"}
CompleteRow(table, i) ==
    \A c \in Range(table.columns) : IsOrganGap(c) => table.data[c][i] # NaN

\* The k-means label computed for row i of the loaded table: the label of the
\* clustered row that carries row i's label and gap values.
ClusteredAs(i, k) ==
    /\ caller.X_gaps.index[k] = args.age_gaps_df.index[i]
    /\ \A c \in Range(caller.X_gaps.columns) :
         caller.X_gaps.data[c][k] = args.age_gaps_df.data[c][i]

\* C10 (as claimed): rows with a missing organ gap keep the sentinel -1;
\* every complete row receives exactly the label k-means computed for that
\* row; the sentinel differs from every assigned label; max_age_gap is not a
\* clustering input.
C10_ExactLabels ==
    (pc = "done" /\ "age_gaps_df" \in DOMAIN args) =>
        /\ \A i \in 1..NRows(args.age_gaps_df) :
             IF CompleteRow(args.age_gaps_df, i)
             THEN \E k \in DOMAIN caller.cluster_labels :
                     /\ ClusteredAs(i, k)
                     /\ result.data["cluster_kmeans"][i] = caller.cluster_labels[k]
                     /\ result.data["cluster_kmeans"][i] # NotClustered
             ELSE result.data["cluster_kmeans"][i] = NotClustered
        /\ "max_age_gap" \notin Range(caller.X_gaps.columns)

\* C10 (amended): as claimed, except that a complete row receives the label
\* k-means computed for that row plus one (stored labels are 1..3, the
\* k-means cluster 0 is stored as 1).
C10_ShiftedLabels ==
    (pc = "done" /\ "age_gaps_df" \in DOMAIN args) =>
        /\ NRows(result) = NRows(args.age_gaps_df)
        /\ Len(caller.cluster_labels) = NRows(caller.X_gaps)
        /\ \A i \in 1..NRows(args.age_gaps_df) :
             IF CompleteRow(args.age_gaps_df, i)
             THEN /\ \E k \in DOMAIN caller.cluster_labels :
                        /\ ClusteredAs(i, k)
                        /\ result.data["cluster_kmeans"][i] = caller.cluster_labels[k] + 1
                  /\ result.data["cluster_kmeans"][i] \in 1..n_clusters
                  /\ result.data["cluster_kmeans"][i] # NotClustered
             ELSE result.data["cluster_kmeans"][i] = NotClustered
        /\ \A k \in DOMAIN caller.X_gaps.index :
             \E i \in 1..NRows(args.age_gaps_df) : CompleteRow(args.age_gaps_df, i) /\ ClusteredAs(i, k)
        /\ Range(caller.X_gaps.columns) = {"liver_age_gap", "kidney_age_gap"}

\* C10 witness: a table with a max_age_gap column whose first row misses a
\* gap; the three complete rows after it got three different k-means labels,
\* cluster 0 among them.
C10_Witness ==
    /\ pc = "done"
    /\ "age_gaps_df" \in DOMAIN args
    /\ "max_age_gap" \in Range(args.age_gaps_df.columns)
    /\ NRows(args.age_gaps_df) = 4
    /\ ~CompleteRow(args.age_gaps_df, 1)
    /\ caller.cluster_labels = <<2, 0, 1>>
    /\ result.data["cluster_kmeans"] = <<-1, 3, 1, 2>>

(***************************************************************************)
(* models.py : train_organ_models, save_model, load_model                  *)
(* Python values are records tagged with their class (py).  The file       *)
(* system is kept in caller: files maps a path to the bytes stored there,   *)
(* dirs is the set of directories.                                         *)
(***************************************************************************)
MaxPersistCalls == 2

Absent == [absent |-> TRUE]

PyStr(v) == [py |-> "str", v |-> v]
PyDict(keys, vals) == [py |-> "dict", keys |-> keys, vals |-> vals]
EmptyDict == PyDict(<<>>, <<>>)

\* k in d
DictHas(d, k) == k \in Range(d.keys)
\* d.get(k, default)
DictGet(d, k, default) ==
    IF DictHas(d, k) THEN d.vals[CHOOSE i \in DOMAIN d.keys : d.keys[i] = k] ELSE default

\* Training partitions of one feature and two rows.
TrainSets ==
    {[X_train |-> <<0, 2>>, y_train |-> <<30, 50>>],
     [X_train |-> <<0, 2>>, y_train |-> <<40, 44>>]}

\* LinearRegression().fit on two rows: the line through them, kept exact as
\* a slope num / den through the first row.
FitLinear(X_train, y_train) ==
    [py |-> "LinearRegression",
     num |-> y_train[2] - y_train[1], den |-> X_train[2] - X_train[1],
     x0 |-> X_train[1], y0 |-> y_train[1]]

\* HistGradientBoostingRegressor(...).fit on fewer rows than two leaves need:
\* no split is made and the model is the mean of y.
FitHistGb(X_train, y_train) ==
    [py |-> "HistGradientBoostingRegressor",
     num |-> y_train[1] + y_train[2], den |-> 2]

\* model.predict on one value, as an exact fraction
Predict(model, x) ==
    IF model.py = "LinearRegression"
    THEN [num |-> model.y0 * model.den + (x - model.x0) * model.num, den |-> model.den]
    ELSE [num |-> model.num, den |-> model.den]

train_linear_model(X_train, y_train, model_type) ==
    IF model_type = "linear"
    THEN [raised |-> FALSE, model |-> FitLinear(X_train, y_train)]
    ELSE [raised |-> TRUE, model |-> None]

\* The optional backends xgboost and lightgbm are not installed: importing
\* them raises, and the except clause raises ImportError in its place.
train_nonlinear_model(X_train, y_train, model_type) ==
    IF model_type = "hist_gb"
    THEN [raised |-> FALSE, error |-> "", model |-> FitHistGb(X_train, y_train)]
    ELSE IF model_type \in {"xgboost", "lightgbm"}
    THEN [raised |-> TRUE, error |-> "ImportError", model |-> None]
    ELSE [raised |-> TRUE, error |-> "ValueError", model |-> None]

Estimators ==
    {FitLinear(t.X_train, t.y_train) : t \in TrainSets}
        \cup {FitHistGb(t.X_train, t.y_train) : t \in {CHOOSE u \in TrainSets : TRUE}}

\* joblib.dump / joblib.load: an object is written as a stream of opcodes
\* that name its class and its state, and rebuilt from them.
RECURSIVE Pickle(_)
Pickle(o) ==
    IF o.py = "dict"
    THEN [op |-> "DICT", keys |-> o.keys, items |-> [i \in DOMAIN o.vals |-> Pickle(o.vals[i])]]
    ELSE IF o.py = "str" THEN [op |-> "UNICODE", v |-> o.v]
    ELSE [op |-> "REDUCE", cls |-> o.py, state |-> [k \in (DOMAIN o) \ {"py"} |-> o[k]]]

RECURSIVE Unpickle(_)
Unpickle(b) ==
    IF b.op = "DICT"
    THEN PyDict(b.keys, [i \in DOMAIN b.items |-> Unpickle(b.items[i])])
    ELSE IF b.op = "UNICODE" THEN PyStr(b.v)
    ELSE [k \in (DOMAIN b.state) \cup {"py"} |-> IF k = "py" THEN b.cls ELSE b.state[k]]

\* pathlib: a / b, and the ancestors of a path (the prefixes before a "/")
PathJoin(a, b) == a \o "/" \o b
Parents(path) ==
    {SubSeq(path, 1, i - 1) : i \in {j \in 2..Len(path) : SubSeq(path, j, j) = "/"}}

PersistPaths ==
    {"models/liver/linear_model.pkl", "models/liver/hist_gb_model.pkl",
     "models/liver", "old/legacy_model.pkl", "old/bundle_model.pkl", "old/params.pkl"}

\* The file system of a state: every path of interest, stored bytes or Absent.
FileSystem(files, dirs) == [files |-> files, dirs |-> dirs]

\* Path(p).mkdir(parents=True, exist_ok=True): fails when the path or an
\* ancestor is a file.
Mkdir(fs, path) ==
    IF \E q \in Parents(path) \cup {path} : q \in DOMAIN fs.files /\ fs.files[q] # Absent
    THEN [raised |-> TRUE, fs |-> fs]
    ELSE [raised |-> FALSE, fs |-> [fs EXCEPT !.dirs = @ \cup Parents(path) \cup {path}]]

\* joblib.dump(value, filepath): writes the file, replacing what is there;
\* fails when filepath is a directory.
Dump(fs, value, filepath) ==
    IF filepath \in fs.dirs
    THEN [raised |-> TRUE, fs |-> fs]
    ELSE [raised |-> FALSE, fs |-> [fs EXCEPT !.files[filepath] = Pickle(value)]]

\* metadata or {}
MetadataDropped(metadata) == EmptyDict
MetadataOrEmpty(metadata) ==
    IF metadata = None \/ metadata = EmptyDict THEN EmptyDict ELSE metadata

save_model(fs, model, filepath, metadata) ==
    LET made == Mkdir(fs, CHOOSE d \in Parents(filepath) :
                              \A e \in Parents(filepath) : Len(e) <= Len(d))
        save_dict == PyDict(<<"model", "metadata">>, <<model, MetadataOrEmpty(metadata)>>)
    IN  IF made.raised THEN [raised |-> TRUE, fs |-> made.fs]
        ELSE Dump(made.fs, save_dict, filepath)

\* The object load_model returns for what joblib.load gave.
ModelOfAlways(loaded) == loaded
ModelOf(loaded) ==
    IF loaded.py = "dict" /\ DictHas(loaded, "model")
    THEN DictGet(loaded, "model", None)
    ELSE loaded

load_model(fs, filepath) ==
    IF filepath \notin fs.dirs /\ fs.files[filepath] = Absent
    THEN [raised |-> TRUE, error |-> "FileNotFoundError", model |-> None]
    ELSE IF filepath \in fs.dirs
    THEN [raised |-> TRUE, error |-> "IsADirectoryError", model |-> None]
    ELSE [raised |-> FALSE, error |-> "", model |-> ModelOf(Unpickle(fs.files[filepath]))]

\* The file system an error of the non-linear step leaves behind: no
\* try/except surrounds the step, so what was saved before it stays.
FsRolledBack(saved_fs, entry_fs) == entry_fs
FsWhenRaised(saved_fs, entry_fs) == saved_fs

\* train_organ_models: the linear model is trained and saved, then the
\* non-linear one; an error leaves on disk what was saved before it.
train_organ_models(fs, splits, organ_name, save_dir, train_linear, train_nonlinear, nonlinear_type) ==
    LET save_path == PathJoin(save_dir, organ_name)
        made == Mkdir(fs, save_path)
        lin == train_linear_model(splits.X_train, splits.y_train, "linear")
        saved1 == IF train_linear
                  THEN save_model(made.fs, lin.model, PathJoin(save_path, "linear_model.pkl"),
                                  PyDict(<<"organ", "model_type">>,
                                         <<PyStr(organ_name), PyStr("linear")>>))
                  ELSE [raised |-> FALSE, fs |-> made.fs]
        non == train_nonlinear_model(splits.X_train, splits.y_train, nonlinear_type)
        saved2 == IF train_nonlinear /\ ~non.raised
                  THEN save_model(saved1.fs, non.model,
                                  PathJoin(save_path, nonlinear_type \o "_model.pkl"),
                                  PyDict(<<"organ", "model_type">>,
                                         <<PyStr(organ_name), PyStr(nonlinear_type)>>))
                  ELSE [raised |-> FALSE, fs |-> saved1.fs]
    IN  IF made.raised
        THEN [raised |-> TRUE, error |-> "OSError", fs |-> made.fs, models |-> None]
        ELSE IF saved1.raised
        THEN [raised |-> TRUE, error |-> "OSError", fs |-> saved1.fs, models |-> None]
        ELSE IF train_nonlinear /\ non.raised
        THEN [raised |-> TRUE, error |-> non.error,
              fs |-> FsWhenRaised(saved1.fs, fs), models |-> None]
        ELSE IF saved2.raised
        THEN [raised |-> TRUE, error |-> "OSError", fs |-> saved2.fs, models |-> None]
        ELSE [raised |-> FALSE, error |-> "", fs |-> saved2.fs,
              models |-> PyDict((IF train_linear THEN <<"linear">> ELSE <<>>)
                                    \o (IF train_nonlinear THEN <<"nonlinear">> ELSE <<>>),
                                (IF train_linear THEN <<lin.model>> ELSE <<>>)
                                    \o (IF train_nonlinear THEN <<non.model>> ELSE <<>>))]

\* Files found on disk before the first call: nothing, or files written by
\* other versions: a bare estimator, a bundle without metadata, a dict that
\* is no bundle.
LegacyFiles ==
    LET est == FitLinear(<<0, 2>>, <<30, 50>>)
    IN  [p \in PersistPaths |->
            CASE p = "old/legacy_model.pkl" -> Pickle(est)
              [] p = "old/bundle_model.pkl" -> Pickle(PyDict(<<"model">>, <<est>>))
              [] p = "old/params.pkl" -> Pickle(PyDict(<<"alpha">>, <<PyStr("0.1")>>))
              [] OTHER -> Absent]

InitPersist ==
    /\ pc = "ready"
    /\ args = [call |-> "none"]
    /\ caller \in {[fs |-> FileSystem([p \in PersistPaths |-> Absent], {}), error |-> "",
                    calls |-> 0, prev |-> [args |-> [call |-> "none"], pc |-> "ready"]],
                   [fs |-> FileSystem(LegacyFiles, {"old"}), error |-> "",
                    calls |-> 0, prev |-> [args |-> [call |-> "none"], pc |-> "ready"]]}
    /\ result = None

\* Every call leaves in caller the file system after it, the number of calls
\* and the arguments and outcome of the call before it.
CallTrainOrganModels ==
    /\ "fs" \in DOMAIN caller
    /\ caller.calls < MaxPersistCalls
    /\ \E splits \in TrainSets, flags \in BOOLEAN \X BOOLEAN,
          nonlinear_type \in {"hist_gb", "xgboost", "svm"} :
         LET out == train_organ_models(caller.fs, splits, "liver", "models",
                                       flags[1], flags[2], nonlinear_type)
         IN  /\ args' = [call |-> "train_organ_models", splits |-> splits,
                         organ_name |-> "liver", save_dir |-> "models",
                         train_linear |-> flags[1], train_nonlinear |-> flags[2],
                         nonlinear_type |-> nonlinear_type]
             /\ pc' = IF out.raised THEN "raised" ELSE "trained"
             /\ result' = out.models
             /\ caller' = [fs |-> out.fs, error |-> out.error, calls |-> caller.calls + 1,
                         prev |-> [args |-> args, pc |-> pc]]

CallSaveModel ==
    /\ "fs" \in DOMAIN caller
    /\ caller.calls < MaxPersistCalls
    /\ \E model \in Estimators,
          filepath \in {"models/liver/linear_model.pkl", "models/liver", "old/legacy_model.pkl"},
          metadata \in {None, EmptyDict, PyDict(<<"organ">>, <<PyStr("liver")>>)} :
         LET out == save_model(caller.fs, model, filepath, metadata)
         IN  /\ args' = [call |-> "save_model", model |-> model, filepath |-> filepath,
                         metadata |-> metadata]
             /\ pc' = IF out.raised THEN "raised" ELSE "saved"
             /\ result' = None
             /\ caller' = [fs |-> out.fs, error |-> IF out.raised THEN "OSError" ELSE "",
                         calls |-> caller.calls + 1, prev |-> [args |-> args, pc |-> pc]]

CallLoadModel ==
    /\ "fs" \in DOMAIN caller
    /\ caller.calls < MaxPersistCalls
    /\ \E filepath \in PersistPaths :
         LET out == load_model(caller.fs, filepath)
         IN  /\ args' = [call |-> "load_model", filepath |-> filepath]
             /\ pc' = IF out.raised THEN out.error ELSE "loaded"
             /\ result' = out.model
             /\ caller' = [fs |-> caller.fs, error |-> out.error, calls |-> caller.calls + 1,
                         prev |-> [args |-> args, pc |-> pc]]

NextPersist == CallTrainOrganModels \/ CallSaveModel \/ CallLoadModel

SpecPersist == InitPersist /\ [][NextPersist]_vars

LinearPath == "models/liver/linear_model.pkl"
NonlinearPath == "models/liver/hist_gb_model.pkl"

\* C11 (as claimed): once train_organ_models has persisted an artifact, a
\* later train_organ_models or save_model call for the same organ, family
\* and directory leaves the content of that artifact unchanged.
C11_PersistedImmutable ==
    [][("fs" \in DOMAIN caller /\ pc = "trained"
            /\ args'.call \in {"train_organ_models", "save_model"})
        => /\ args.train_linear =>
                caller'.fs.files[LinearPath] = caller.fs.files[LinearPath]
           /\ (args.train_nonlinear /\ args.nonlinear_type = "hist_gb") =>
                caller'.fs.files[NonlinearPath] = caller.fs.files[NonlinearPath]]_vars

\* What the code does instead: the retrained model replaces the artifact at
\* the same path and no other file appears.
C11_Overwritten ==
    /\ "fs" \in DOMAIN caller
    /\ pc = "trained" /\ args.train_linear
    /\ caller.prev.pc = "trained" /\ caller.prev.args.train_linear
    /\ caller.prev.args.splits # args.splits
    /\ ModelOf(Unpickle(caller.fs.files[LinearPath]))
          = FitLinear(args.splits.X_train, args.splits.y_train)
    /\ \A p \in PersistPaths :
          caller.fs.files[p] # Absent => p \in {LinearPath, NonlinearPath}

PredictInputs == {0, 2, 5}
MetadataValues ==
    {EmptyDict, PyDict(<<"organ">>, <<PyStr("liver")>>),
     PyDict(<<"organ", "model_type">>, <<PyStr("liver"), PyStr("linear")>>),
     PyDict(<<"organ", "model_type">>, <<PyStr("liver"), PyStr("hist_gb")>>)}

\* C12: save_model(model, path) followed by load_model(path) returns an
\* estimator equal to the saved one, with equal predictions; after
\* save_model the parent directories of the path exist and the file holds
\* the bundle {model, metadata}, metadata being an empty mapping when none
\* (or an empty one) was given.
C12_RoundTrip ==
    ("fs" \in DOMAIN caller) =>
        /\ (pc = "saved") =>
              /\ Parents(args.filepath) \subseteq caller.fs.dirs
              /\ Unpickle(caller.fs.files[args.filepath])
                    = PyDict(<<"model", "metadata">>,
                             <<args.model,
                               IF args.metadata = None THEN EmptyDict ELSE args.metadata>>)
        /\ (args.call = "load_model" /\ caller.prev.pc = "saved"
                /\ caller.prev.args.filepath = args.filepath) =>
              /\ pc = "loaded"
              /\ result = caller.prev.args.model
              /\ \A x \in PredictInputs :
                    Predict(result, x) = Predict(caller.prev.args.model, x)

\* C12 witness: a fitted line with a slope, saved without metadata under a
\* directory that did not exist, was loaded back from the same path.
C12_Witness ==
    /\ "fs" \in DOMAIN caller
    /\ pc = "loaded"
    /\ caller.prev.pc = "saved"
    /\ caller.prev.args.filepath = args.filepath
    /\ args.filepath = LinearPath
    /\ caller.prev.args.metadata = None
    /\ result = FitLinear(<<0, 2>>, <<30, 50>>)
    /\ Predict(result, 5) = [num |-> 160, den |-> 2]
    /\ "models/liver" \in caller.fs.dirs

\* C20: load_model returns the model of a bundle {model, metadata}, the model
\* of a bundle without a 'metadata' entry, and a bare estimator stored by
\* itself; a path where nothing exists raises the not-found error.
C20_BundleShapes ==
    ("fs" \in DOMAIN caller /\ args.call = "load_model") =>
        LET f == caller.fs.files[args.filepath]
        IN  /\ (f = Absent /\ args.filepath \notin caller.fs.dirs) =>
                  pc = "FileNotFoundError" /\ result = None
            /\ \A m \in Estimators :
                  /\ (\E md \in MetadataValues :
                        f = Pickle(PyDict(<<"model", "metadata">>, <<m, md>>))) =>
                        pc = "loaded" /\ result = m
                  /\ f = Pickle(PyDict(<<"model">>, <<m>>)) => pc = "loaded" /\ result = m
                  /\ f = Pickle(m) => pc = "loaded" /\ result = m

\* C20 witness: the bundle without metadata was loaded and gave its model.
C20_Witness ==
    /\ "fs" \in DOMAIN caller
    /\ pc = "loaded"
    /\ args.filepath = "old/bundle_model.pkl"
    /\ caller.fs.files[args.filepath]
          = Pickle(PyDict(<<"model">>, <<FitLinear(<<0, 2>>, <<30, 50>>)>>))
    /\ result = FitLinear(<<0, 2>>, <<30, 50>>)

\* The paths whose stored bytes differ between two file systems.
Written(before, after) == {p \in PersistPaths : after.files[p] # before.files[p]}

\* The bundle train_organ_models saves for the linear model of a call.
LinearBundle(a) ==
    PyDict(<<"model", "metadata">>,
           <<FitLinear(a.splits.X_train, a.splits.y_train),
             PyDict(<<"organ", "model_type">>, <<PyStr(a.organ_name), PyStr("linear")>>)>>)

\* C29: train_organ_models persists in a fixed order with no rollback. In a
\* call whose save directory can be created: when the linear model is asked
\* for and the non-linear step fails (unknown nonlinear_type: ValueError;
\* optional backend not installed: ImportError), the error propagates, no
\* model dictionary is returned, and <save_dir>/<organ>/linear_model.pkl
\* holds the linear bundle of this call, the only file the call wrote; with
\* both flags false the call returns an empty dictionary and writes no file.
\* When the save directory is an existing file the call raises before
\* anything is trained and writes nothing.
C29_FixedOrderNoRollback ==
    [][("fs" \in DOMAIN caller /\ args'.call = "train_organ_models"
            /\ caller'.calls = caller.calls + 1)
        => LET a == args'
               save_path == PathJoin(a.save_dir, a.organ_name)
               linear_path == PathJoin(save_path, "linear_model.pkl")
               written == Written(caller.fs, caller'.fs)
           IN  IF caller.fs.files[save_path] # Absent
               THEN pc' = "raised" /\ result' = None /\ written = {}
               ELSE /\ (a.train_linear /\ a.train_nonlinear /\ a.nonlinear_type # "hist_gb") =>
                        /\ pc' = "raised"
                        /\ caller'.error = IF a.nonlinear_type = "xgboost"
                                           THEN "ImportError" ELSE "ValueError"
                        /\ result' = None
                        /\ caller'.fs.files[linear_path] = Pickle(LinearBundle(a))
                        /\ written \subseteq {linear_path}
                        /\ save_path \in caller'.fs.dirs
                    /\ (~a.train_linear /\ ~a.train_nonlinear) =>
                        /\ pc' = "trained"
                        /\ result' = EmptyDict
                        /\ written = {}
                        /\ save_path \in caller'.fs.dirs]_vars

\* C29 witness: the first call, on a disk without the organ's directory,
\* asked for both models with a backend that is not installed: it raised
\* ImportError, returned nothing and left its linear artifact on disk.
C29_Witness ==
    /\ "fs" \in DOMAIN caller
    /\ args.call = "train_organ_models"
    /\ caller.calls = 1
    /\ args.train_linear /\ args.train_nonlinear /\ args.nonlinear_type = "xgboost"
    /\ pc = "raised" /\ caller.error = "ImportError" /\ result = None
    /\ caller.fs.files[LinearPath] = Pickle(LinearBundle(args))
    /\ caller.fs.files[NonlinearPath] = Absent

(***************************************************************************)
(* explainability.py : get_feature_importance                              *)
(***************************************************************************)
MaxFeatures == 2

ImportanceTypes == {"auto", "coef", "gain", "split", "permutation", ""}
DocumentedImportanceTypes == {"auto", "coef", "gain", "split"}
FeatureNames == <<"ALT", "AST", "SEX">>
CoefValues == {-3, 0, 2}

\* Fitted models: tree models carry feature_importances_, linear models
\* coef_, a histogram gradient boosting model neither.
ImportanceModels ==
    UNION {{[py |-> "LinearRegression", coef_ |-> v],
            [py |-> "RandomForestRegressor",
             feature_importances_ |-> [k \in DOMAIN v |-> IF v[k] < 0 THEN 1 ELSE v[k]]]} :
           v \in SeqsUpTo(CoefValues, MaxFeatures) \ {<<>>}}
        \cup {[py |-> "HistGradientBoostingRegressor"]}

Abs(x) == IF x < 0 THEN -x ELSE x

\* The tables get_feature_importance can return; rows of equal importance
\* may come out in any order.
get_feature_importance(model, feature_names, importance_type) ==
    IF "feature_importances_" \notin DOMAIN model /\ "coef_" \notin DOMAIN model
    THEN [raised |-> TRUE, tables |-> {}]
    ELSE LET importances == IF "feature_importances_" \in DOMAIN model
                            THEN model.feature_importances_
                            ELSE [k \in DOMAIN model.coef_ |-> Abs(model.coef_[k])]
             rows == [k \in DOMAIN importances |->
                         [feature |-> feature_names[k], importance |-> importances[k]]]
         IN  IF Len(feature_names) # Len(importances)
             THEN [raised |-> TRUE, tables |-> {}]
             ELSE [raised |-> FALSE,
                   tables |-> {[i \in DOMAIN rows |-> rows[p[i]]] :
                                 p \in SortedOrders(rows, "importance", FALSE)}]

InitImportance ==
    /\ pc = "ready"
    /\ \E model \in ImportanceModels, n \in 1..MaxFeatures, t \in ImportanceTypes :
         args = [model |-> model, feature_names |-> SubSeq(FeatureNames, 1, n),
                 importance_type |-> t]
    /\ caller = [model |-> args.model]
    /\ result = None

CallFeatureImportance ==
    /\ pc = "ready"
    /\ "importance_type" \in DOMAIN args
    /\ LET out == get_feature_importance(args.model, args.feature_names, args.importance_type)
       IN  \/ /\ out.raised
              /\ pc' = "raised"
              /\ result' = None
           \/ /\ ~out.raised
              /\ pc' = "done"
              /\ result' \in out.tables
    /\ UNCHANGED <<args, caller>>

NextImportance == CallFeatureImportance

SpecImportance == InitImportance /\ [][NextImportance]_vars

\* C15 (as claimed): an importance type other than 'auto', 'coef', 'gain',
\* 'split' makes get_feature_importance raise instead of returning a result.
C15_UnknownTypeRaises ==
    ("importance_type" \in DOMAIN args /\ pc # "ready"
        /\ args.importance_type \notin DocumentedImportanceTypes)
        => pc = "raised" /\ result = None

\* What the code does: the importance type has no effect on the outcome.
C15_TypeIgnored ==
    ("importance_type" \in DOMAIN args /\ pc = "done") =>
        \A t \in ImportanceTypes :
            result \in get_feature_importance(args.model, args.feature_names, t).tables

(***************************************************************************)
(* features.py : scale_features and clustering.py : perform_clustering,    *)
(* called with any method name                                             *)
(***************************************************************************)
ScaleMethodNames == {"standard", "robust", "minmax", "Standard", ""}
ClusterMethodNames == {"kmeans", "hdbscan", "dbscan", "KMeans", ""}

\* Matrices passed to perform_clustering: the complete rows of a gap table.
ClusterInputs ==
    {DropNa(t, KmeansGapColumns(t)) : t \in {u \in AgeGapsTables : Len(u.columns) = 3}}

InitMethods ==
    /\ pc = "ready"
    /\ \/ \E X_train \in TrainMatrices, X_val \in {None, FeatureMatrix(<<>>)},
             method \in ScaleMethodNames :
            args = [call |-> "scale_features", X_train |-> X_train, X_val |-> X_val,
                    X_test |-> None, method |-> method]
       \/ \E X \in ClusterInputs, method \in ClusterMethodNames, installed \in BOOLEAN :
            args = [call |-> "perform_clustering", X |-> X, method |-> method,
                    hdbscan_installed |-> installed]
    /\ caller = [error |-> "", fitted |-> FALSE]
    /\ result = None

CallScaleWithMethod ==
    /\ pc = "ready"
    /\ "call" \in DOMAIN args /\ args.call = "scale_features"
    /\ LET out == scale_features(args.X_train, args.X_val, args.X_test, args.method)
       IN  /\ pc' = IF out.raised THEN "raised" ELSE "done"
           /\ result' = out.value
           /\ caller' = [error |-> out.error, fitted |-> out.fitted]
    /\ UNCHANGED args

CallClusterWithMethod ==
    /\ pc = "ready"
    /\ "call" \in DOMAIN args /\ args.call = "perform_clustering"
    /\ LET out == perform_clustering(args.X, args.method, args.hdbscan_installed)
       IN  \/ /\ out.raised
              /\ pc' = "raised"
              /\ result' = None
              /\ caller' = [error |-> out.error, fitted |-> out.fitted]
           \/ /\ ~out.raised /\ out.may_raise
              /\ pc' = "raised"
              /\ result' = None
              /\ caller' = [error |-> "ValueError", fitted |-> FALSE]
           \/ /\ ~out.raised
              /\ pc' = "done"
              /\ \E labels \in out.labelings : result' = [labels |-> labels]
              /\ caller' = [error |-> out.error, fitted |-> out.fitted]
    /\ UNCHANGED args

NextMethods == CallScaleWithMethod \/ CallClusterWithMethod

SpecMethods == InitMethods /\ [][NextMethods]_vars

\* C16: scale_features with a method other than 'standard' or 'robust', and
\* perform_clustering with a method other than 'kmeans' or 'hdbscan', raise
\* the unknown-method error with no scaler or clustering model fitted and
\* return nothing; the known methods never raise that error.
C16_UnknownMethodRaises ==
    ("call" \in DOMAIN args /\ "fitted" \in DOMAIN caller /\ pc # "ready") =>
        /\ (args.call = "scale_features") =>
              IF args.method \in {"standard", "robust"}
              THEN caller.error # "Unknown scaling method"
              ELSE /\ pc = "raised" /\ result = None
                   /\ caller.error = "Unknown scaling method"
                   /\ ~caller.fitted
        /\ (args.call = "perform_clustering") =>
              IF args.method \in {"kmeans", "hdbscan"}
              THEN caller.error # "Unknown clustering method"
              ELSE /\ pc = "raised" /\ result = None
                   /\ caller.error = "Unknown clustering method"
                   /\ ~caller.fitted

\* C16 witness: perform_clustering('dbscan') on four rows raised the
\* unknown-method error.
C16_Witness ==
    /\ "call" \in DOMAIN args /\ "fitted" \in DOMAIN caller
    /\ pc = "raised"
    /\ args.call = "perform_clustering"
    /\ args.method = "dbscan"
    /\ NRows(args.X) = 4
    /\ caller.error = "Unknown clustering method"
    /\ result = None

(***************************************************************************)
(* preprocessing.py : filter_by_age, handle_missing_values,                *)
(* encode_categorical_variables, remove_outliers                           *)
(*                                                                         *)
(* Table objects live in a heap, a sequence of tables indexed by object    *)
(* identity; the table the caller passed is object 1.  A pandas call that  *)
(* returns a table (copy, boolean indexing, drop, get_dummies) stores its  *)
(* result in a new object; an item assignment writes into the object it is *)
(* applied to.  Only remove_outliers' printed lines are kept (stdout).     *)
(*                                                                         *)
(* A typed table also carries dtypes: a "float" cell is a rational num/den *)
(* (0/0 is NaN), an "object" cell is a Python str or None, an "int" cell   *)
(* is an integer.                                                          *)
(***************************************************************************)
MaxAgeRows == 3
MaxMissingRows == 4
MaxOutlierRows == 4

NewObjectShared(heap) == 1
NewObject(heap) == Len(heap) + 1

Store(heap, obj, table) ==
    IF obj > Len(heap) THEN Append(heap, table) ELSE [heap EXCEPT ![obj] = table]

\* ---- filter_by_age ----
AgeCells == {17, 18, 80, 81, NaN}
AgeRanges == {<<18, 80>>, <<18, 18>>, <<80, 18>>}
AgeColumnNames == {"AGE", "RIDAGEYR"}

AgeTable(ages) ==
    [columns |-> <<"SEQN", "AGE">>,
     index   |-> [i \in 1..Len(ages) |-> 2 * i + 1],
     data    |-> [c \in {"SEQN", "AGE"} |->
                    IF c = "AGE" THEN ages ELSE [i \in 1..Len(ages) |-> i]]]

AgeTables == {AgeTable(a) : a \in SeqsUpTo(AgeCells, MaxAgeRows)}

\* (df[age_col] >= min_age) & (df[age_col] <= max_age): a comparison with a
\* missing age is False.
AgeInRange(v, min_age, max_age) == v # NaN /\ v >= min_age /\ v <= max_age

filter_by_age(df, min_age, max_age, age_col) ==
    IF age_col \notin Range(df.columns)
    THEN [raised |-> TRUE, value |-> None, error |-> "ValueError",
          df |-> df, is_new |-> FALSE, stdout |-> <<>>]
    ELSE LET heap0 == <<df>>
             pos == SelectSeq([i \in 1..NRows(df) |-> i],
                              LAMBDA i : AgeInRange(df.data[age_col][i], min_age, max_age))
             selected == NewObject(heap0)
             heap1 == Store(heap0, selected, TakeRows(heap0[1], heap0[1].columns, pos))
             filtered_df == NewObject(heap1)
             heap2 == Store(heap1, filtered_df, heap1[selected])
         IN  [raised |-> FALSE, value |-> heap2[filtered_df], error |-> "",
              df |-> heap2[1], is_new |-> filtered_df # 1, stdout |-> <<>>]

\* ---- typed tables ----
Float(n) == [num |-> n, den |-> 1]
FloatNaN == [num |-> 0, den |-> 0]

RECURSIVE Gcd(_, _)
Gcd(a, b) == IF b = 0 THEN a ELSE Gcd(b, a % b)

Rational(num, den) ==
    LET g == Gcd(Abs(num), den) IN [num |-> num \div g, den |-> den \div g]

isnull(cell) == cell = None \/ cell = FloatNaN

TypedRowKinds ==
    { [A |-> Float(1), SEX |-> PyStr("F"), B |-> Float(2)],
      [A |-> Float(4), SEX |-> PyStr("M"), B |-> FloatNaN],
      [A |-> FloatNaN, SEX |-> None,       B |-> FloatNaN],
      [A |-> FloatNaN, SEX |-> PyStr("F"), B |-> Float(2)],
      [A |-> Float(1), SEX |-> None,       B |-> FloatNaN] }

TypedTable(rows) ==
    [columns |-> <<"A", "SEX", "B">>,
     index   |-> [i \in 1..Len(rows) |-> 2 * i + 1],
     data    |-> [c \in {"A", "SEX", "B"} |-> [i \in 1..Len(rows) |-> rows[i][c]]],
     dtypes  |-> [c \in {"A", "SEX", "B"} |-> IF c = "SEX" THEN "object" ELSE "float"]]

TypedTables == {TypedTable(r) : r \in SeqsUpTo(TypedRowKinds, MaxMissingRows)}

\* ---- handle_missing_values ----
\* missing_threshold as a fraction <<num, den>>
MissingThresholds == {<<0, 1>>, <<1, 2>>, <<1, 1>>}
ImputerStrategies == {"mean", "median", "most_frequent"}
StrategyNames == ImputerStrategies \cup {"mode"}

MissingCount(t, c) == Cardinality({i \in 1..NRows(t) : isnull(t.data[c][i])})

\* missing_rates > missing_threshold: count/n > num/den.  The rate of a
\* column of a table without rows is NaN, which is above nothing.
RateAbove(t, c, threshold) ==
    NRows(t) > 0 /\ MissingCount(t, c) * threshold[2] > threshold[1] * NRows(t)

DropColumns(t, cols) ==
    LET kept == SelectSeq(t.columns, LAMBDA c : c \notin Range(cols))
    IN  [columns |-> kept,
         index   |-> t.index,
         data    |-> [c \in Range(kept) |-> t.data[c]],
         dtypes  |-> [c \in Range(kept) |-> t.dtypes[c]]]

select_dtypes_number(t) == SelectSeq(t.columns, LAMBDA c : t.dtypes[c] \in {"float", "int"})

Observed(s) == SelectSeq(s, LAMBDA x : ~isnull(x))

Occurrences(s, v) == Cardinality({i \in DOMAIN s : s[i] = v})

\* The most frequent value, the smallest one among equally frequent values.
MostFrequent(s) ==
    CHOOSE v \in Range(s) : \A w \in Range(s) :
        \/ Occurrences(s, v) > Occurrences(s, w)
        \/ Occurrences(s, v) = Occurrences(s, w) /\ v <= w

\* SimpleImputer(strategy).fit: statistics_ of one column, computed over its
\* observed cells (whole numbers in the tables here); NaN when it has none.
statistics_(strategy, s) ==
    LET nums == [i \in DOMAIN Observed(s) |-> Observed(s)[i].num]
    IN  IF nums = <<>> THEN FloatNaN
        ELSE IF strategy = "mean" THEN Rational(SumSeq(nums), Len(nums))
        ELSE IF strategy = "median" THEN Rational(Percentile4(nums, 50), 4)
        ELSE Float(MostFrequent(nums))

\* What imputer.fit_transform and the assignment of its result raise:
\* the strategy is validated by fit; a matrix without rows is refused; a
\* column without any observed cell is left out of the transformed matrix,
\* which then has fewer columns than numeric_cols.
ImputeError(t, numeric_cols, strategy) ==
    IF strategy \notin ImputerStrategies THEN "InvalidParameterError"
    ELSE IF NRows(t) = 0 THEN "ValueError"
    ELSE IF \E c \in Range(numeric_cols) : Observed(t.data[c]) = <<>> THEN "ValueError"
    ELSE ""

\* df_clean[numeric_cols] = imputer.fit_transform(df_clean[numeric_cols])
Imputed(t, numeric_cols, strategy) ==
    [columns |-> t.columns,
     index   |-> t.index,
     data    |-> [c \in DOMAIN t.data |->
                    IF c \in Range(numeric_cols)
                    THEN [i \in 1..NRows(t) |->
                            IF isnull(t.data[c][i]) THEN statistics_(strategy, t.data[c])
                            ELSE t.data[c][i]]
                    ELSE t.data[c]],
     dtypes  |-> [c \in DOMAIN t.dtypes |->
                    IF c \in Range(numeric_cols) THEN "float" ELSE t.dtypes[c]]]

handle_missing_values(df, missing_threshold, strategy, numeric_only) ==
    LET heap0 == <<df>>
        copied == NewObject(heap0)
        heap1 == Store(heap0, copied, heap0[1])
        cols_to_drop == SelectSeq(heap1[copied].columns,
                                  LAMBDA c : RateAbove(heap1[copied], c, missing_threshold))
        df_clean == IF cols_to_drop # <<>> THEN NewObject(heap1) ELSE copied
        heap2 == IF cols_to_drop # <<>>
                 THEN Store(heap1, df_clean, DropColumns(heap1[copied], cols_to_drop))
                 ELSE heap1
        numeric_cols == select_dtypes_number(heap2[df_clean])
        imputes == numeric_only /\ numeric_cols # <<>>
        error == IF imputes THEN ImputeError(heap2[df_clean], numeric_cols, strategy) ELSE ""
        heap3 == IF imputes /\ error = ""
                 THEN Store(heap2, df_clean, Imputed(heap2[df_clean], numeric_cols, strategy))
                 ELSE heap2
    IN  IF error # ""
        THEN [raised |-> TRUE, value |-> None, error |-> error,
              df |-> heap3[1], is_new |-> FALSE, stdout |-> <<>>]
        ELSE [raised |-> FALSE, value |-> heap3[df_clean], error |-> "",
              df |-> heap3[1], is_new |-> df_clean # 1, stdout |-> <<>>]

\* ---- encode_categorical_variables ----
\* The str values of the tables, in sorted order.
Categories == <<"F", "M">>

\* categorical_cols: None, or a list of column names.
PyList(items) == [py |-> "list", items |-> items]
CategoricalColumnLists == {None, PyList(<<>>), PyList(<<"SEX">>), PyList(<<"RACE">>)}

RECURSIVE Dummies(_, _, _)
Dummies(t, cols, drop_first) ==
    IF cols = <<>> THEN <<>>
    ELSE LET col == Head(cols)
             present == SelectSeq(Categories, LAMBDA v : PyStr(v) \in Range(t.data[col]))
             kept == IF drop_first /\ present # <<>> THEN Tail(present) ELSE present
         IN  [k \in 1..Len(kept) |->
                 [name |-> col \o "_" \o kept[k], col |-> col, value |-> kept[k]]]
             \o Dummies(t, Tail(cols), drop_first)

\* pd.get_dummies(t, columns=cols, drop_first=drop_first, dtype=int): the
\* other columns in their order, then one 0/1 column per category of each
\* listed column; a missing cell is 0 in every dummy column.
get_dummies(t, cols, drop_first) ==
    LET kept == SelectSeq(t.columns, LAMBDA c : c \notin Range(cols))
        dummies == Dummies(t, cols, drop_first)
        names == [k \in 1..Len(dummies) |-> dummies[k].name]
        dummy(name) == CHOOSE d \in Range(dummies) : d.name = name
    IN  [columns |-> kept \o names,
         index   |-> t.index,
         data    |-> [c \in Range(kept) \cup Range(names) |->
                        IF c \in Range(kept) THEN t.data[c]
                        ELSE [i \in 1..NRows(t) |->
                                IF t.data[dummy(c).col][i] = PyStr(dummy(c).value)
                                THEN 1 ELSE 0]],
         dtypes  |-> [c \in Range(kept) \cup Range(names) |->
                        IF c \in Range(kept) THEN t.dtypes[c] ELSE "int"]]

encode_categorical_variables(df, categorical_cols, drop_first) ==
    LET heap0 == <<df>>
        df_encoded == NewObject(heap0)
        heap1 == Store(heap0, df_encoded, heap0[1])
        cols == IF categorical_cols = None
                THEN SelectSeq(heap1[df_encoded].columns,
                               LAMBDA c : heap1[df_encoded].dtypes[c] \in {"object", "category"})
                ELSE categorical_cols.items
        encoded == NewObject(heap1)
    IN  IF cols = <<>>
        THEN [raised |-> FALSE, value |-> heap1[df_encoded], error |-> "",
              df |-> heap1[1], is_new |-> df_encoded # 1, stdout |-> <<>>]
        ELSE IF \E c \in Range(cols) : c \notin Range(heap1[df_encoded].columns)
        THEN [raised |-> TRUE, value |-> None, error |-> "KeyError",
              df |-> heap1[1], is_new |-> FALSE, stdout |-> <<>>]
        ELSE LET heap2 == Store(heap1, encoded,
                                get_dummies(heap1[df_encoded], cols, drop_first))
             IN  [raised |-> FALSE, value |-> heap2[encoded], error |-> "",
                  df |-> heap2[1], is_new |-> encoded # 1, stdout |-> <<>>]

\* ---- remove_outliers ----
\* threshold as a fraction <<num, den>>
OutlierThresholds == {<<1, 1>>, <<3, 2>>}
OutlierMethods == {"iqr", "zscore", "mad"}
OutlierRowKinds == {<<0, 0>>, <<0, 1>>, <<1, 0>>, <<NaN, 1>>}
OutlierColumnLists ==
    {<<>>, <<"X">>, <<"A">>, <<"A", "B">>, <<"B", "A">>, <<"X", "B">>, <<"X", "Y">>}

OutlierTable(rows) ==
    [columns |-> <<"A", "B">>,
     index   |-> [i \in 1..Len(rows) |-> 2 * i + 1],
     data    |-> [c \in {"A", "B"} |->
                    [i \in 1..Len(rows) |-> IF c = "A" THEN rows[i][1] ELSE rows[i][2]]]]

OutlierTables == {OutlierTable(r) : r \in SeqsUpTo(OutlierRowKinds, MaxOutlierRows)}

NotNa(s) == SelectSeq(s, LAMBDA x : x # NaN)

\* (x < Q1 - threshold * IQR) | (x > Q3 + threshold * IQR), the quantiles of
\* the observed cells of s; every comparison with NaN is False.
IqrOutlier(s, x, threshold) ==
    /\ x # NaN
    /\ NotNa(s) # <<>>
    /\ LET q1 == Percentile4(NotNa(s), 25)
           q3 == Percentile4(NotNa(s), 75)
           iqr == q3 - q1
       IN  \/ 4 * x * threshold[2] < q1 * threshold[2] - threshold[1] * iqr
           \/ 4 * x * threshold[2] > q3 * threshold[2] + threshold[1] * iqr

\* np.abs((x - mean) / std) > threshold, mean and sample standard deviation
\* (ddof 1) of the observed cells of s: with n cells of sum S and sum of
\* squares Q, (n x - S)^2 (n - 1) > threshold^2 n (n Q - S^2).  The std of
\* fewer than two cells is NaN, and a zero std gives 0/0.
ZscoreOutlier(s, x, threshold) ==
    LET v == NotNa(s)
        n == Len(v)
        S == SumSeq(v)
        Q == SumSeq([i \in DOMAIN v |-> v[i] * v[i]])
    IN  /\ x # NaN
        /\ n >= 2
        /\ n * Q - S * S > 0
        /\ (n * x - S) * (n * x - S) * (n - 1) * threshold[2] * threshold[2]
              > threshold[1] * threshold[1] * n * (n * Q - S * S)

\* The table whose column gives the bounds of the current column.
OutlierBaseInput(df, df_clean) == df
OutlierBase(df, df_clean) == df_clean

\* The loop leaves a listed column alone when the table lacks it.
SkipsKnownOnly(t, col, method) ==
    col \notin Range(t.columns) /\ method \in {"iqr", "zscore"}
Skips(t, col, method) == col \notin Range(t.columns)

RECURSIVE OutlierLoop(_, _, _, _, _, _)
OutlierLoop(st, df, columns, k, method, threshold) ==
    IF k > Len(columns) THEN st
    ELSE LET col == columns[k]
             t == st.heap[st.df_clean]
         IN  IF Skips(t, col, method)
             THEN OutlierLoop([st EXCEPT !.stdout = Append(@, "Warning: Column '" \o col \o "' not found, skipping")], df, columns, k + 1, method, threshold)
             ELSE IF method \notin {"iqr", "zscore"}
             THEN [st EXCEPT !.raised = TRUE, !.error = "Unknown method"]
             ELSE LET base == OutlierBase(df, t).data[col]
                      outliers == [i \in 1..NRows(t) |->
                                     IF method = "iqr"
                                     THEN IqrOutlier(base, t.data[col][i], threshold)
                                     ELSE ZscoreOutlier(base, t.data[col][i], threshold)]
                      n_outliers == Cardinality({i \in 1..NRows(t) : outliers[i]})
                      pos == SelectSeq([i \in 1..NRows(t) |-> i], LAMBDA i : ~outliers[i])
                      kept == NewObject(st.heap)
                  IN  IF n_outliers > 0
                      THEN OutlierLoop([heap |-> Store(st.heap, kept, TakeRows(t, t.columns, pos)),
                                        df_clean |-> kept,
                                        stdout |-> Append(st.stdout, "Removed " \o ToString(n_outliers) \o " outliers from '" \o col \o "'"),
                                        raised |-> FALSE, error |-> ""],
                                       df, columns, k + 1, method, threshold)
                      ELSE OutlierLoop(st, df, columns, k + 1, method, threshold)

remove_outliers(df, columns, method, threshold) ==
    LET heap0 == <<df>>
        df_clean == NewObject(heap0)
        heap1 == Store(heap0, df_clean, heap0[1])
        end == OutlierLoop([heap |-> heap1, df_clean |-> df_clean, stdout |-> <<>>,
                            raised |-> FALSE, error |-> ""],
                           df, columns, 1, method, threshold)
        removed == NRows(df) - NRows(end.heap[end.df_clean])
    IN  IF end.raised
        THEN [raised |-> TRUE, value |-> None, error |-> end.error,
              df |-> end.heap[1], is_new |-> FALSE, stdout |-> end.stdout]
        ELSE [raised |-> FALSE, value |-> end.heap[end.df_clean], error |-> "",
              df |-> end.heap[1], is_new |-> end.df_clean # 1,
              stdout |-> Append(end.stdout, "\nTotal rows removed: " \o ToString(removed))]

InitPreprocess ==
    /\ pc = "ready"
    /\ \/ \E df \in AgeTables, range \in AgeRanges, age_col \in AgeColumnNames :
            args = [call |-> "filter_by_age", df |-> df, min_age |-> range[1],
                    max_age |-> range[2], age_col |-> age_col]
       \/ \E df \in TypedTables, missing_threshold \in MissingThresholds,
             strategy \in StrategyNames, numeric_only \in BOOLEAN :
            args = [call |-> "handle_missing_values", df |-> df,
                    missing_threshold |-> missing_threshold, strategy |-> strategy,
                    numeric_only |-> numeric_only]
       \/ \E df \in TypedTables, categorical_cols \in CategoricalColumnLists,
             drop_first \in BOOLEAN :
            args = [call |-> "encode_categorical_variables", df |-> df,
                    categorical_cols |-> categorical_cols, drop_first |-> drop_first]
       \/ \E df \in OutlierTables, columns \in OutlierColumnLists,
             method \in OutlierMethods, threshold \in OutlierThresholds :
            args = [call |-> "remove_outliers", df |-> df, columns |-> columns,
                    method |-> method, threshold |-> threshold]
    /\ caller = [df |-> args.df, error |-> "", stdout |-> <<>>, is_new |-> FALSE]
    /\ result = None

\* The caller keeps its reference to the table it passed: after the call
\* caller.df is what object 1 holds.
PreprocessReturned(out) ==
    /\ pc' = IF out.raised THEN "raised" ELSE "done"
    /\ result' = out.value
    /\ caller' = [df |-> out.df, error |-> out.error, stdout |-> out.stdout,
                  is_new |-> out.is_new]
    /\ UNCHANGED args

CallFilterByAge ==
    /\ pc = "ready"
    /\ "call" \in DOMAIN args /\ args.call = "filter_by_age"
    /\ PreprocessReturned(filter_by_age(args.df, args.min_age, args.max_age, args.age_col))

CallHandleMissingValues ==
    /\ pc = "ready"
    /\ "call" \in DOMAIN args /\ args.call = "handle_missing_values"
    /\ PreprocessReturned(handle_missing_values(args.df, args.missing_threshold, args.strategy,
                                      args.numeric_only))

CallEncodeCategorical ==
    /\ pc = "ready"
    /\ "call" \in DOMAIN args /\ args.call = "encode_categorical_variables"
    /\ PreprocessReturned(encode_categorical_variables(args.df, args.categorical_cols, args.drop_first))

CallRemoveOutliers ==
    /\ pc = "ready"
    /\ "call" \in DOMAIN args /\ args.call = "remove_outliers"
    /\ PreprocessReturned(remove_outliers(args.df, args.columns, args.method, args.threshold))

NextPreprocess ==
    \/ CallFilterByAge
    \/ CallHandleMissingValues
    \/ CallEncodeCategorical
    \/ CallRemoveOutliers

SpecPreprocess == InitPreprocess /\ [][NextPreprocess]_vars

\* The scalars a strategy computes over the whole column s.
WholeColumnScalars(s) == {statistics_(strategy, s) : strategy \in ImputerStrategies}

\* C21 (as claimed): handle_missing_values drops a column if and only if its
\* missing fraction is strictly greater than the threshold; in the returned
\* table no retained numeric column has a missing cell, its missing cells
\* hold one scalar computed over the whole column and its other cells are
\* kept; non-numeric columns are as they were.
C21_DropsAndImputes ==
    ("call" \in DOMAIN args /\ args.call = "handle_missing_values" /\ pc = "done") =>
        /\ \A c \in Range(args.df.columns) :
              c \notin Range(result.columns)
                  <=> MissingCount(args.df, c) * args.missing_threshold[2]
                          > args.missing_threshold[1] * NRows(args.df)
        /\ \A c \in Range(result.columns) :
              IF args.df.dtypes[c] = "float"
              THEN \E s \in WholeColumnScalars(args.df.data[c]) :
                      \A i \in 1..NRows(result) :
                          /\ ~isnull(result.data[c][i])
                          /\ result.data[c][i] =
                                IF isnull(args.df.data[c][i]) THEN s ELSE args.df.data[c][i]
              ELSE result.data[c] = args.df.data[c]

\* What the code does with numeric_only true: the claimed behaviour, the
\* scalar being the statistic of the strategy passed.
C21_NumericOnlyImputes ==
    ("call" \in DOMAIN args /\ args.call = "handle_missing_values" /\ pc = "done"
        /\ args.numeric_only) =>
        /\ \A c \in Range(args.df.columns) :
              c \notin Range(result.columns)
                  <=> MissingCount(args.df, c) * args.missing_threshold[2]
                          > args.missing_threshold[1] * NRows(args.df)
        /\ \A c \in Range(result.columns) :
              IF args.df.dtypes[c] = "float"
              THEN \A i \in 1..NRows(result) :
                      /\ ~isnull(result.data[c][i])
                      /\ result.data[c][i] =
                            IF isnull(args.df.data[c][i])
                            THEN statistics_(args.strategy, args.df.data[c])
                            ELSE args.df.data[c][i]
              ELSE result.data[c] = args.df.data[c]

\* What the code does with numeric_only false: only the drop; every retained
\* column, numeric or not, keeps its cells, the missing ones included.
C21_NothingImputed ==
    ("call" \in DOMAIN args /\ args.call = "handle_missing_values" /\ ~args.numeric_only) =>
        /\ pc # "raised"
        /\ pc = "done" =>
              \A c \in Range(result.columns) : result.data[c] = args.df.data[c]

\* The failing call: numeric_only false, a half-missing numeric column kept
\* under the threshold 1/2 and still holding its missing cell.
C21_MissingLeft ==
    /\ "call" \in DOMAIN args /\ args.call = "handle_missing_values" /\ pc = "done"
    /\ ~args.numeric_only
    /\ args.missing_threshold = <<1, 2>>
    /\ args.df.data["A"] = <<Float(1), FloatNaN>>
    /\ "A" \in Range(result.columns)
    /\ result.data["A"] = <<Float(1), FloatNaN>>

\* The cells of column col in the rows of df at the positions P, in row order.
CellsAt(df, col, P) ==
    LET pos == SelectSeq([i \in 1..NRows(df) |-> i], LAMBDA i : i \in P)
    IN  [k \in 1..Len(pos) |-> df.data[col][pos[k]]]

\* Row p is outside the band (IQR or z-score) of column col computed over
\* the rows P.
FlaggedOver(df, col, P, p, method, threshold) ==
    IF method = "iqr"
    THEN IqrOutlier(CellsAt(df, col, P), df.data[col][p], threshold)
    ELSE ZscoreOutlier(CellsAt(df, col, P), df.data[col][p], threshold)

\* The positions of df that survive the first k columns of cols.
RECURSIVE SurvivorsAfter(_, _, _, _, _)
SurvivorsAfter(df, cols, k, method, threshold) ==
    IF k = 0 THEN 1..NRows(df)
    ELSE LET P == SurvivorsAfter(df, cols, k - 1, method, threshold)
         IN  {p \in P : ~FlaggedOver(df, cols[k], P, p, method, threshold)}

PresentColumns(df, columns) == SelectSeq(columns, LAMBDA c : c \in Range(df.columns))

\* C22: remove_outliers removes rows cumulatively, column by column in the
\* listed order: the band of each column is computed over the rows that
\* survived all earlier columns, a row is removed as soon as one column
\* flags it, and the result is the input table restricted to the surviving
\* rows, all columns kept.  (That two orders of one column list can leave
\* different rows is the state C22_Witness.)
C22_CumulativeRemoval ==
    ("call" \in DOMAIN args /\ args.call = "remove_outliers" /\ pc = "done") =>
        LET df == args.df
            cols == PresentColumns(df, args.columns)
            S(k) == SurvivorsAfter(df, cols, k, args.method, args.threshold)
            kept == S(Len(cols))
        IN  /\ result.columns = df.columns
            /\ result = TakeRows(df, df.columns,
                                 SelectSeq([i \in 1..NRows(df) |-> i], LAMBDA i : i \in kept))
            /\ Range(result.index) \subseteq Range(df.index)
            /\ \A p \in 1..NRows(df) :
                  p \notin kept <=>
                      \E k \in 1..Len(cols) :
                          /\ p \in S(k - 1)
                          /\ FlaggedOver(df, cols[k], S(k - 1), p, args.method, args.threshold)

\* C22 witness: columns A then B removed a row, the band of B was computed
\* over fewer rows than the table has, and the order B then A leaves other
\* rows.
C22_Witness ==
    /\ "call" \in DOMAIN args /\ args.call = "remove_outliers" /\ pc = "done"
    /\ args.columns = <<"A", "B">>
    /\ NRows(result) < NRows(args.df)
    /\ SurvivorsAfter(args.df, <<"A">>, 1, args.method, args.threshold) # 1..NRows(args.df)
    /\ result.index # remove_outliers(args.df, <<"B", "A">>, args.method, args.threshold).value.index

\* C23: no preprocessing step mutates its caller's data.  After
\* filter_by_age, handle_missing_values, encode_categorical_variables or
\* remove_outliers has returned or raised, the table the caller passed has
\* the rows, columns and values it had; a returned table is a new object;
\* filter_by_age returns exactly the rows with min_age <= age <= max_age,
\* both bounds included, in their order and with all columns.
C23_InputUnchanged ==
    ("call" \in DOMAIN args /\ "is_new" \in DOMAIN caller /\ pc # "ready") =>
        /\ caller.df = args.df
        /\ pc = "done" => caller.is_new
        /\ pc = "raised" => result = None
        /\ (args.call = "filter_by_age" /\ pc = "done") =>
              LET df == args.df
                  age == df.data[args.age_col]
              IN  /\ result.columns = df.columns
                  /\ \A i \in 1..NRows(df) :
                        df.index[i] \in Range(result.index)
                            <=> (age[i] # NaN /\ args.min_age <= age[i]
                                    /\ age[i] <= args.max_age)
                  /\ Cardinality(Range(result.index)) = NRows(result)
                  /\ \A k \in 1..NRows(result) :
                        /\ k > 1 => result.index[k - 1] < result.index[k]
                        /\ \E i \in 1..NRows(df) :
                              /\ result.index[k] = df.index[i]
                              /\ \A c \in Range(df.columns) :
                                    result.data[c][k] = df.data[c][i]

\* C23 witness: filter_by_age(df, 18, 80) on ages 18, 81, 80 returned the
\* first and the third row and the caller's table still has its three rows.
C23_Witness ==
    /\ "call" \in DOMAIN args /\ "is_new" \in DOMAIN caller /\ pc = "done"
    /\ args.call = "filter_by_age"
    /\ args.min_age = 18 /\ args.max_age = 80
    /\ args.df.data["AGE"] = <<18, 81, 80>>
    /\ caller.df.data["AGE"] = <<18, 81, 80>>
    /\ result.index = <<3, 7>>
    /\ result.data["AGE"] = <<18, 80>>
    /\ caller.is_new

NotFoundWarning(col) == "Warning: Column '" \o col \o "' not found, skipping"

\* The listed columns before the first one the table has.
AbsentPrefix(df, columns) ==
    LET first == CHOOSE k \in 1..Len(columns) :
                    /\ columns[k] \in Range(df.columns)
                    /\ \A j \in 1..(k - 1) : columns[j] \notin Range(df.columns)
    IN  SubSeq(columns, 1, first - 1)

\* C30: remove_outliers validates its method only when it reaches a listed
\* column the table has.  With an unknown method and no listed column
\* present the call raises nothing and returns an unchanged copy of the
\* input; with an unknown method and a present column it raises the
\* unknown-method error at the first present column, after the warnings of
\* the absent columns listed before it; a known method never raises; every
\* absent listed column is skipped with its warning.
C30_MethodCheckedLazily ==
    ("call" \in DOMAIN args /\ args.call = "remove_outliers" /\ pc # "ready") =>
        LET df == args.df
            present == PresentColumns(df, args.columns)
            absent == SelectSeq(args.columns, LAMBDA c : c \notin Range(df.columns))
            unknown == args.method \notin {"iqr", "zscore"}
            warnings == SelectSeq(caller.stdout,
                                  LAMBDA line : \E c \in Range(args.columns) :
                                                    line = NotFoundWarning(c))
        IN  /\ (unknown /\ present = <<>>) =>
                  /\ pc = "done" /\ caller.error = ""
                  /\ result = df /\ caller.is_new
            /\ (unknown /\ present # <<>>) =>
                  /\ pc = "raised" /\ caller.error = "Unknown method" /\ result = None
                  /\ caller.stdout = [k \in DOMAIN AbsentPrefix(df, args.columns) |->
                                        NotFoundWarning(AbsentPrefix(df, args.columns)[k])]
            /\ ~unknown => pc = "done"
            /\ pc = "done" =>
                  warnings = [k \in DOMAIN absent |-> NotFoundWarning(absent[k])]

\* C30 witness: method 'mad' with the absent columns X, Y on a table of
\* three rows returned the three rows after two warnings.
C30_Witness ==
    /\ "call" \in DOMAIN args /\ args.call = "remove_outliers" /\ pc = "done"
    /\ args.method = "mad"
    /\ args.columns = <<"X", "Y">>
    /\ NRows(args.df) = 3
    /\ result = args.df
    /\ caller.stdout = <<NotFoundWarning("X"), NotFoundWarning("Y"), "\nTotal rows removed: 0">>

(***************************************************************************)
(* features.py : build_organ_datasets, the target column                   *)
(***************************************************************************)
\* C28 (as claimed): the feature matrix build_organ_datasets returns for any
\* organ never contains the target column (chronological age), whatever
\* names the organ panel and the global covariate list contain.
C28_TargetNotAFeature ==
    (pc = "done" /\ "organ_panels" \in DOMAIN args) =>
        \A d \in DOMAIN result : "AGE" \notin Range(result[d].X.columns)

\* What the code does: the target column is a feature of an organ exactly
\* when the organ's panel or the global covariate list names it.
C28_TargetWhenListed ==
    (pc = "done" /\ "organ_panels" \in DOMAIN args) =>
        \A d \in DOMAIN result :
            "AGE" \in Range(result[d].X.columns)
                <=> \/ "AGE" \in Range(args.global_covars)
                    \/ "AGE" \in Range(PanelOf(args.organ_panels, result[d].organ).biomarkers)

\* The failing call: the covariates AGE, SEX, BMI of the configuration give
\* the liver a feature matrix whose AGE column equals the target vector.
C28_AgeLeaks ==
    /\ pc = "done" /\ "organ_panels" \in DOMAIN args
    /\ args.global_covars = <<"AGE", "SEX", "BMI">>
    /\ \E d \in DOMAIN result :
          /\ result[d].organ = "liver"
          /\ result[d].X.columns = <<"ALT", "AST", "AGE", "SEX">>
          /\ NRows(result[d].X) = 2
          /\ result[d].X.data["AGE"] = result[d].y.values

Shape(X) == <<NRows(X), Len(X.columns)>>

\* C26 (as claimed): scale_features called with a training matrix and one
\* further matrix returns exactly three values (scaled training matrix,
\* scaled second matrix, fitted scaler), each scaled matrix having the shape
\* of its input.
C26_ThreeValues ==
    (pc = "done" /\ "X_train" \in DOMAIN args /\ args.X_val # None /\ args.X_test = None) =>
        /\ Cardinality(DOMAIN result) = 3
        /\ Shape(result.X_train_scaled) = Shape(args.X_train)
        /\ Shape(result.X_val_scaled) = Shape(args.X_val)

\* What the code returns: always the four values X_train_scaled,
\* X_val_scaled, X_test_scaled, scaler, the third being None when no third
\* matrix was passed; each scaled matrix has the shape of its input.
C26_FourValues ==
    (pc = "done" /\ "X_train" \in DOMAIN args) =>
        /\ DOMAIN result = {"X_train_scaled", "X_val_scaled", "X_test_scaled", "scaler"}
        /\ Shape(result.X_train_scaled) = Shape(args.X_train)
        /\ IF args.X_val = None THEN result.X_val_scaled = None
           ELSE Shape(result.X_val_scaled) = Shape(args.X_val)
        /\ IF args.X_test = None THEN result.X_test_scaled = None
           ELSE Shape(result.X_test_scaled) = Shape(args.X_test)

\* The call of the test: a training matrix and one further matrix, scaled
\* and returned with a third value None before the scaler.
C26_TestCall ==
    /\ pc = "done" /\ "X_train" \in DOMAIN args
    /\ caller.calls = 1
    /\ args.method = "standard"
    /\ NRows(args.X_train) = 3
    /\ args.X_val # None /\ args.X_test = None
    /\ NRows(args.X_val) = 2
    /\ result.X_test_scaled = None
    /\ Cardinality(DOMAIN result) = 4

(***************************************************************************)
(* analysis.py : identify_advanced_organs, analyze_cooccurrence            *)
(***************************************************************************)
MaxAdvancedRows == 2
MaxCooccurRows == 3
GapCells == {4, 5, 6, NaN}
AdvancedThresholds == {4, 5}
GapColumnLists ==
    {None, PyList(<<"liver_age_gap">>), PyList(<<"kidney_age_gap", "liver_age_gap">>),
     PyList(<<"liver_age_gap", "cardio_age_gap">>)}

\* A gap table; with_flag adds a liver_advanced column left by an earlier
\* run, all False.
AdvancedGapTable(liver, kidney, with_flag) ==
    [columns |-> IF with_flag
                 THEN <<"SEQN", "liver_age_gap", "liver_advanced", "kidney_age_gap">>
                 ELSE <<"SEQN", "liver_age_gap", "kidney_age_gap">>,
     index   |-> [i \in 1..Len(liver) |-> i - 1],
     data    |-> [c \in {"SEQN", "liver_age_gap", "kidney_age_gap"}
                          \cup (IF with_flag THEN {"liver_advanced"} ELSE {}) |->
                    IF c = "SEQN" THEN [i \in 1..Len(liver) |-> i]
                    ELSE IF c = "liver_age_gap" THEN liver
                    ELSE IF c = "kidney_age_gap" THEN kidney
                    ELSE [i \in 1..Len(liver) |-> FALSE]]]

AdvancedGapTables ==
    {AdvancedGapTable(l, k, f) : <<l, k, f>> \in
        {t \in SeqsUpTo(GapCells, MaxAdvancedRows) \X SeqsUpTo(GapCells, MaxAdvancedRows)
                  \X BOOLEAN : Len(t[1]) = Len(t[2])}}

\* df_flagged[gap_col] > threshold: a comparison with a missing gap is False.
ExceedsOrEqual(gap, threshold) == gap # NaN /\ gap >= threshold
Exceeds(gap, threshold) == gap # NaN /\ gap > threshold

\* The loop over gap_columns on the table df_flagged refers to; a gap column
\* the table lacks raises KeyError.
RECURSIVE AdvancedLoop(_, _, _, _)
AdvancedLoop(st, gap_columns, k, threshold) ==
    IF k > Len(gap_columns) THEN st
    ELSE LET col == gap_columns[k]
             organ_name == str_replace(col, "_age_gap", "")
             advanced_col == organ_name \o "_advanced"
         IN  IF col \notin Range(st.table.columns)
             THEN [st EXCEPT !.raised = TRUE]
             ELSE AdvancedLoop(
                     [st EXCEPT !.table =
                         SetColumn(@, advanced_col,
                                   [i \in 1..NRows(@) |->
                                       Exceeds(@.data[col][i], threshold)])],
                     gap_columns, k + 1, threshold)

identify_advanced_organs(df, threshold, gap_columns) ==
    LET cols == IF gap_columns = None THEN AutoGapColumns(df) ELSE gap_columns.items
        heap0 == <<df>>
        df_flagged == NewObject(heap0)
        heap1 == Store(heap0, df_flagged, heap0[1])
        end == AdvancedLoop([table |-> heap1[df_flagged], raised |-> FALSE], cols, 1, threshold)
        heap2 == Store(heap1, df_flagged, end.table)
    IN  IF end.raised
        THEN [raised |-> TRUE, value |-> None, error |-> "KeyError",
              df |-> heap2[1], is_new |-> FALSE]
        ELSE [raised |-> FALSE, value |-> heap2[df_flagged], error |-> "",
              df |-> heap2[1], is_new |-> df_flagged # 1]

\* A table of boolean advanced-organ columns.
FlagTable(liver, kidney) ==
    [columns |-> <<"SEQN", "liver_advanced", "kidney_advanced">>,
     index   |-> [i \in 1..Len(liver) |-> i - 1],
     data    |-> [c \in {"SEQN", "liver_advanced", "kidney_advanced"} |->
                    IF c = "SEQN" THEN [i \in 1..Len(liver) |-> i]
                    ELSE IF c = "liver_advanced" THEN liver ELSE kidney]]

FlagTables ==
    {FlagTable(t[1], t[2]) : t \in
        {u \in SeqsUpTo(BOOLEAN, MaxCooccurRows) \X SeqsUpTo(BOOLEAN, MaxCooccurRows) :
            Len(u[1]) = Len(u[2])}}

OrganColumnLists ==
    {<<"liver_advanced", "kidney_advanced">>, <<"kidney_advanced">>,
     <<"liver_advanced", "cardio_advanced">>}
MinCounts == {1, 2, 10}

\* Row i of df[organ_cols].
FlagRow(df, organ_cols, i) == [k \in 1..Len(organ_cols) |-> df.data[organ_cols[k]][i]]

\* df[organ_cols].sum(axis=1) at row i.
FlagsSet(df, organ_cols, i) == Cardinality({k \in 1..Len(organ_cols) : df.data[organ_cols[k]][i]})

\* The dictionary returned: combinations maps each combination of flags
\* counted at least min_count times to its count; pct_multiple is a fraction.
analyze_cooccurrence(df, organ_cols, min_count) ==
    IF \E c \in Range(organ_cols) : c \notin Range(df.columns)
    THEN [raised |-> TRUE, value |-> None, error |-> "KeyError", df |-> df, is_new |-> FALSE]
    ELSE LET rows == 1..NRows(df)
             count(combo) == Cardinality({i \in rows : FlagRow(df, organ_cols, i) = combo})
             seen == {FlagRow(df, organ_cols, i) : i \in rows}
             combinations == [combo \in {c \in seen : count(c) >= min_count} |-> count(combo)]
             n_advanced_any == Cardinality({i \in rows : FlagsSet(df, organ_cols, i) > 0})
             n_advanced_multiple == Cardinality({i \in rows : FlagsSet(df, organ_cols, i) > 1})
             pct_multiple == IF NRows(df) > 0
                             THEN Rational(100 * n_advanced_multiple, NRows(df))
                             ELSE Float(0)
         IN  [raised |-> FALSE, error |-> "", df |-> df, is_new |-> TRUE,
              value |-> PyDict(<<"combinations", "n_any_advanced", "n_multiple_advanced",
                                 "pct_multiple">>,
                               <<combinations, n_advanced_any, n_advanced_multiple,
                                 pct_multiple>>)]

InitAdvanced ==
    /\ pc = "ready"
    /\ \/ \E df \in AdvancedGapTables, threshold \in AdvancedThresholds, gap_columns \in GapColumnLists :
            args = [call |-> "identify_advanced_organs", df |-> df,
                    threshold |-> threshold, gap_columns |-> gap_columns]
       \/ \E df \in FlagTables, organ_cols \in OrganColumnLists, min_count \in MinCounts :
            args = [call |-> "analyze_cooccurrence", df |-> df,
                    organ_cols |-> organ_cols, min_count |-> min_count]
    /\ caller = [df |-> args.df, error |-> "", is_new |-> FALSE]
    /\ result = None

AnalysisReturned(out) ==
    /\ pc' = IF out.raised THEN "raised" ELSE "done"
    /\ result' = out.value
    /\ caller' = [df |-> out.df, error |-> out.error, is_new |-> out.is_new]
    /\ UNCHANGED args

CallIdentifyAdvanced ==
    /\ pc = "ready"
    /\ "call" \in DOMAIN args /\ args.call = "identify_advanced_organs"
    /\ AnalysisReturned(identify_advanced_organs(args.df, args.threshold, args.gap_columns))

CallAnalyzeCooccurrence ==
    /\ pc = "ready"
    /\ "call" \in DOMAIN args /\ args.call = "analyze_cooccurrence"
    /\ AnalysisReturned(analyze_cooccurrence(args.df, args.organ_cols, args.min_count))

NextAdvanced == CallIdentifyAdvanced \/ CallAnalyzeCooccurrence

SpecAdvanced == InitAdvanced /\ [][NextAdvanced]_vars

\* The flag column of a gap column named <organ>_age_gap.
FlagColumn(g) == SubSeq(g, 1, Len(g) - Len("_age_gap")) \o "_advanced"

\* C24: identify_advanced_organs flags an organ as advanced for an individual
\* exactly when its gap strictly exceeds the threshold: for every gap column
\* and row, <organ>_advanced is true iff gap > threshold (an equal or a
\* missing gap is not advanced); the table passed is not modified, and the
\* result has its rows, its columns in their order and, apart from the flag
\* columns, its values.
C24_AdvancedIffAbove ==
    ("call" \in DOMAIN args /\ args.call = "identify_advanced_organs" /\ pc = "done") =>
        LET df == args.df
            gap_cols == IF args.gap_columns = None
                        THEN {c \in Range(df.columns) : endswith(c, "_age_gap")}
                        ELSE Range(args.gap_columns.items)
            flag_cols == {FlagColumn(g) : g \in gap_cols}
        IN  /\ \A g \in gap_cols : \A i \in 1..NRows(df) :
                  result.data[FlagColumn(g)][i]
                      <=> (df.data[g][i] # NaN /\ df.data[g][i] > args.threshold)
            /\ caller.df = df
            /\ caller.is_new
            /\ result.index = df.index
            /\ SubSeq(result.columns, 1, Len(df.columns)) = df.columns
            /\ \A c \in Range(df.columns) \ flag_cols : result.data[c] = df.data[c]
            /\ Range(result.columns) = Range(df.columns) \cup flag_cols

\* C24 witness: threshold 5, liver gaps 5 and 6, kidney gaps missing and 4:
\* only the second individual's liver is advanced.
C24_Witness ==
    /\ "call" \in DOMAIN args /\ args.call = "identify_advanced_organs" /\ pc = "done"
    /\ args.threshold = 5
    /\ args.gap_columns = None
    /\ args.df.data["liver_age_gap"] = <<5, 6>>
    /\ args.df.data["kidney_age_gap"] = <<NaN, 4>>
    /\ result.data["liver_advanced"] = <<FALSE, TRUE>>
    /\ result.data["kidney_advanced"] = <<FALSE, FALSE>>
    /\ caller.df = args.df

\* C25 (as claimed): the dictionary analyze_cooccurrence returns contains a
\* key 'both' or a key 'counts'.
C25_BothOrCounts ==
    ("call" \in DOMAIN args /\ args.call = "analyze_cooccurrence" /\ pc = "done") =>
        DictHas(result, "both") \/ DictHas(result, "counts")

\* What the code returns: exactly the keys combinations, n_any_advanced,
\* n_multiple_advanced and pct_multiple, for every table whose listed
\* columns exist.
C25_ResultKeys ==
    ("call" \in DOMAIN args /\ args.call = "analyze_cooccurrence" /\ pc # "ready") =>
        IF Range(args.organ_cols) \subseteq Range(args.df.columns)
        THEN /\ pc = "done"
             /\ Range(result.keys) = {"combinations", "n_any_advanced",
                                      "n_multiple_advanced", "pct_multiple"}
        ELSE pc = "raised" /\ result = None

====
